---- MODULE Spec2Model ----
(***************************************************************************)
(* Google Drive Upload (Raycast extension): the upload command.            *)
(*                                                                         *)
(* Paths are sequences of segments: the string "photos/sub" is             *)
(* <<"photos", "sub">> and "." is <<".">>, so split("/") and join("/")     *)
(* are the two directions of this representation.  An absent              *)
(* (undefined) relativePath is the empty sequence.                         *)
(***************************************************************************)
EXTENDS Integers, Sequences, FiniteSets, TLC

\* ------------------------------------------------------------------ bounds
\* nesting levels of the selected directory tree on the local disk
MaxDepth == 2

\* how many paths a Finder selection holds at most when the flattener is
\* taken on its own (SpecFlatten)
MaxSelected == 3

\* how many access tokens the token endpoint issues at most (SpecAuth)
MaxIssued == 3

\* how many interactive authorizations are made at most (SpecStorage)
MaxAuthorizations == 3

\* how many calls that change the stored accounts are made at most
\* (SpecInterleaved)
MaxMutations == 3

\* how many folders the listed parent chains hold at most (SpecPath)
MaxChain == 12

\* ------------------------------------------------------- program constants
\* uploadFileWithRetry(..., maxRetries = 3)
maxRetries == 3

AUTHENTICATION_EXPIRED == "AUTHENTICATION_EXPIRED"

\* ------------------------------------------------------------- sequences
RECURSIVE Concat(_)
Concat(ss) == IF ss = <<>> THEN <<>> ELSE Head(ss) \o Concat(Tail(ss))

Last(s) == s[Len(s)]
Front(s) == SubSeq(s, 1, Len(s) - 1)
Contains(s, x) == \E i \in 1..Len(s) : s[i] = x

RECURSIVE Pow2(_)
Pow2(n) == IF n = 0 THEN 1 ELSE 2 * Pow2(n - 1)

\* ------------------------------------------------- the local file system
\* /Users/a holds doc.pdf, an empty directory, and the directory photos,
\* whose level k (photos, photos/sub, ...) holds one file and the directory
\* of level k + 1; photos also holds a hidden file, the hidden directory
\* .git with a file in it, and the directory locked, which cannot be read
LevelDirs == <<"photos", "sub", "deep", "deeper">>
LevelFiles == <<"x.jpg", "y.png", "z.gif", "w.txt">>

Home == <<"Users", "a">>
DocPdf == Home \o <<"doc.pdf">>
EmptyDir == Home \o <<"empty">>
LevelDir(k) == Home \o SubSeq(LevelDirs, 1, k)
Photos == LevelDir(1)
PhotosSub == LevelDir(2)
XJpg == Photos \o <<"x.jpg">>
DotGit == Photos \o <<".git">>
Locked == Photos \o <<"locked">>

\* the directories of the disk
Directories == {Home, EmptyDir, DotGit, Locked} \cup {LevelDir(k) : k \in 1..MaxDepth}

\* the directories readdirSync throws on (EACCES)
Unreadable == {Locked}

\* readdirSync(dir, {withFileTypes: true}): the entries of a directory
readdirSync(dir) ==
    IF dir = Home THEN << [name |-> "doc.pdf", kind |-> "file"],
                          [name |-> "photos", kind |-> "dir"],
                          [name |-> "empty", kind |-> "dir"] >>
    ELSE IF \E k \in 1..MaxDepth : dir = LevelDir(k)
    THEN LET k == Len(dir) - Len(Home)
         IN  << [name |-> LevelFiles[k], kind |-> "file"] >>
             \o (IF k = 1 THEN << [name |-> ".DS_Store", kind |-> "file"],
                                   [name |-> ".git", kind |-> "dir"],
                                   [name |-> "locked", kind |-> "dir"] >>
                 ELSE <<>>)
             \o (IF k < MaxDepth THEN << [name |-> LevelDirs[k + 1], kind |-> "dir"] >>
                 ELSE <<>>)
    ELSE IF dir = DotGit THEN << [name |-> "config", kind |-> "file"] >>
    ELSE IF dir = Locked THEN << [name |-> "secret.txt", kind |-> "file"] >>
    ELSE <<>>

\* the entry names of the disk that begin with a dot
DotNames == {".DS_Store", ".git"}

\* a faulty variant of StartsWithDot: no entry is skipped
StartsWithDotNever(name) == FALSE

\* entry.name.startsWith(".")
StartsWithDot(name) == name \in DotNames

\* what the Finder selection can be when it is read
Selections == { <<>>, <<DocPdf>>, <<DocPdf, XJpg>>, <<Photos>>, <<DocPdf, Photos>>,
                <<PhotosSub>>, <<EmptyDir>> }

\* ---------------------------------------------------------- file-utils.ts
isDirectory(path) == path \in Directories

basename(path) == Last(path)

\* path.dirname of an absolute path or of a relative one ("." when the
\* relative path has a single segment)
dirname(path) == IF Len(path) <= 1 THEN <<".">> ELSE Front(path)

\* path.relative(base, path) for a path below base
relative(base, path) == SubSeq(path, Len(base) + 1, Len(path))

getFileMetadata(path, basePath) ==
    [ path |-> path,
      name |-> basename(path),
      isDirectory |-> isDirectory(path),
      relativePath |-> IF basePath # <<>> THEN relative(basePath, path) ELSE <<>> ]

RECURSIVE walkDirectory(_, _)

\* a faulty variant of walkEntries: a directory entry is pushed as a unit too
RECURSIVE walkEntriesWithDirs(_, _, _)
walkEntriesWithDirs(dirPath, base, entries) ==
    IF entries = <<>> THEN <<>>
    ELSE LET entry == Head(entries)
             fullPath == dirPath \o <<entry.name>>
             here == IF StartsWithDot(entry.name) THEN <<>>
                     ELSE IF entry.kind = "dir"
                     THEN <<getFileMetadata(fullPath, base)>> \o walkDirectory(fullPath, base)
                     ELSE IF entry.kind = "file" THEN <<getFileMetadata(fullPath, base)>>
                     ELSE <<>>
         IN  here \o walkEntriesWithDirs(dirPath, base, Tail(entries))

RECURSIVE walkEntries(_, _, _)
walkEntries(dirPath, base, entries) ==
    IF entries = <<>> THEN <<>>
    ELSE LET entry == Head(entries)
             fullPath == dirPath \o <<entry.name>>
             here == IF StartsWithDot(entry.name) THEN <<>>
                     ELSE IF entry.kind = "dir" THEN walkDirectory(fullPath, base)
                     ELSE IF entry.kind = "file" THEN <<getFileMetadata(fullPath, base)>>
                     ELSE <<>>
         IN  here \o walkEntries(dirPath, base, Tail(entries))

\* the try block of walkDirectory: a readdirSync that throws leaves files empty
walkDirectory(dirPath, basePath) ==
    LET base == IF basePath # <<>> THEN basePath ELSE dirPath
    IN  IF dirPath \in Unreadable THEN <<>>
        ELSE walkEntries(dirPath, base, readdirSync(dirPath))

\* a faulty variant of getAllFiles: walkDirectory is called without basePath
RECURSIVE getAllFilesNoBase(_)
getAllFilesNoBase(paths) ==
    IF paths = <<>> THEN <<>>
    ELSE LET path == Head(paths)
         IN  (IF isDirectory(path)
              THEN walkDirectory(path, <<>>)
              ELSE <<getFileMetadata(path, <<>>)>>)
             \o getAllFilesNoBase(Tail(paths))

\* a faulty variant of getAllFiles: a plain file is given a base path too
RECURSIVE getAllFilesWithBase(_)
getAllFilesWithBase(paths) ==
    IF paths = <<>> THEN <<>>
    ELSE LET path == Head(paths)
         IN  (IF isDirectory(path)
              THEN walkDirectory(path, Front(path))
              ELSE <<getFileMetadata(path, Front(Front(path)))>>)
             \o getAllFilesWithBase(Tail(paths))

RECURSIVE getAllFiles(_)
getAllFiles(paths) ==
    IF paths = <<>> THEN <<>>
    ELSE LET path == Head(paths)
         IN  (IF isDirectory(path)
              THEN walkDirectory(path, Front(path))
              ELSE <<getFileMetadata(path, <<>>)>>)
             \o getAllFiles(Tail(paths))

\* the prefixes parts[1..i] of a directory path, shortest first
Prefixes(parts) == [i \in 1..Len(parts) |-> SubSeq(parts, 1, i)]

\* appends to keys the elements of more that keys does not hold yet
RECURSIVE AddKeys(_, _)
AddKeys(keys, more) ==
    IF more = <<>> THEN keys
    ELSE AddKeys(IF Contains(keys, Head(more)) THEN keys ELSE Append(keys, Head(more)),
                 Tail(more))

\* the keys of the Map extractFolderStructure returns, in insertion order
RECURSIVE extractFolderStructureFrom(_, _)
extractFolderStructureFrom(fs, keys) ==
    IF fs = <<>> THEN keys
    ELSE LET file == Head(fs)
             dir == dirname(file.relativePath)
         IN  extractFolderStructureFrom(
                 Tail(fs),
                 IF file.relativePath = <<>> \/ dir = <<".">>
                 THEN keys
                 ELSE AddKeys(keys, Prefixes(dir)))

extractFolderStructure(fs) == extractFolderStructureFrom(fs, <<>>)

\* Array.sort by a.split("/").length - b.split("/").length (a stable sort)
MaxDepthOf(keys) == IF keys = <<>> THEN 0
                    ELSE CHOOSE d \in {Len(keys[i]) : i \in 1..Len(keys)} :
                             \A i \in 1..Len(keys) : Len(keys[i]) <= d

OfDepth(keys, d) == LET atDepth(k) == Len(k) = d IN SelectSeq(keys, atDepth)

\* a faulty variant of sortByDepth: the comparator's operands are exchanged
sortByDepthDescending(keys) ==
    Concat([d \in 1..MaxDepthOf(keys) |-> OfDepth(keys, MaxDepthOf(keys) + 1 - d)])

sortByDepth(keys) == Concat([d \in 1..MaxDepthOf(keys) |-> OfDepth(keys, d)])


\* ------------------------------------------------------------ remote ids
Root == <<"root">>
Undefined == <<"undefined">>
Id(n) == <<"id", n>>

\* the destination folder the store holds from the start
FolderF == [id |-> Id(1), name |-> "F", parent |-> Root]

\* folders named photos an earlier upload left under each destination
EarlierPhotosInRoot == [id |-> Id(2), name |-> "photos", parent |-> Root]
EarlierPhotosInF == [id |-> Id(3), name |-> "photos", parent |-> FolderF.id]

\* what the store can hold when the command is launched
InitialStores == { {FolderF}, {FolderF, EarlierPhotosInRoot, EarlierPhotosInF} }

\* the destinations the picker offers: My Drive ("root") and a listed folder
Destinations == {Root, FolderF.id}

\* the HTTP statuses the remote store answers with
UploadStatuses == {200, 401, 404, 500}
FolderStatuses == {200, 401, 500}
PermissionStatuses == {200, 403}

\* a Map: get is undefined for an absent key, set adds or overwrites
EmptyMap == [k \in {} |-> Undefined]
MapHas(m, k) == k \in DOMAIN m
MapGet(m, k) == IF k \in DOMAIN m THEN m[k] ELSE Undefined
MapSet(m, k, v) == [x \in DOMAIN m \cup {k} |-> IF x = k THEN v ELSE m[x]]

NoToast == [style |-> "none", title |-> <<>>, message |-> ""]
NoLog == [unit |-> 0, responses |-> <<>>, delays |-> <<>>, permission |-> 0, copies |-> 0]
NoLink == [kind |-> "none", id |-> Undefined]
NoBatchLog == [attempted |-> {}, exhausted |-> {}]
NoFile == [id |-> Undefined, name |-> "", webViewLink |-> FALSE]

\* ---------------------------------------------------------- token sets
\* the provider ids an account can carry
Providers == {"google-drive", "google-drive-1"}

\* a token set: accessToken and refreshToken are 0 when absent, tokens are
\* numbered by the order the token endpoint issued them; expired is what
\* isExpired() answers.  getTokens() of a client that stores nothing is
\* undefined, which tokenSet?.accessToken reads like an absent accessToken
NoTokenSet == [accessToken |-> 0, refreshToken |-> 0, expired |-> FALSE]
\* no getValidAccessToken call yet
NoCall == [providerId |-> "", before |-> NoTokenSet, after |-> NoTokenSet,
           response |-> [kind |-> "none", refresh_token |-> FALSE, error |-> ""],
           fetches |-> 0, returned |-> 0, thrown |-> "", othersKept |-> TRUE]

\* ------------------------------------------------------- LocalStorage
\* an absent account id (undefined), and an absent default folder
NoId == ""
NoFolder == [id |-> Undefined, accountId |-> NoId]
NoAccount == [id |-> NoId, email |-> "", accessToken |-> 0, providerId |-> 0]

EmptyStorage == [accounts |-> <<>>, defaultAccountId |-> NoId, defaultFolder |-> NoFolder]

\* no call on LocalStorage yet
NoStorageCall == [op |-> "none", id |-> NoId, before |-> EmptyStorage,
                  account |-> NoAccount, result |-> NoFolder]

\* what getUserInfo answers; sub is "" when the answer has none
NoUserInfo == [sub |-> "", email |-> ""]

\* a caller that has no call on the stored accounts under way
NoMutation == [op |-> "none", id |-> NoId, userInfo |-> NoUserInfo, token |-> 0,
               read |-> EmptyStorage, phase |-> "none"]

\* no buildFolderPath call yet, and no invocation that is over
NoPathCall == [folderId |-> Undefined, path |-> <<>>]
NoRun == [folders |-> {}, files |-> {}, folderId |-> <<"undefined">>, hasFolders |-> FALSE]

VARIABLES
    uiState,        \* what the command shows: closed, error, selectAccount, ready
    error,          \* the error state of the command ("" when unset)
    selection,      \* the Finder selection the command read when it opened
    files,          \* the flattened units (React state files)
    account,        \* the active account ("none" when unset)
    remoteFolders,  \* the store's non-trashed folders
    remoteFiles,    \* the store's files, one record per remote object
    nextId,         \* the next id the store hands out
    pc,             \* where handleUpload is: idle, search, create, upload,
                    \* public, backoff, summary, done
    folderId,       \* handleUpload's destination argument
    folderIdMap,    \* relative directory path -> remote folder id
    hasFolders,     \* selectedPaths.some(isDirectory), read when the upload starts
    sortedFolders,  \* the folder paths of the build loop, by depth
    bi,             \* index in sortedFolders of the folder being ensured
    fi,             \* index in files of the unit being uploaded
    attempt,        \* uploadFileWithRetry's loop variable
    lastError,      \* uploadFileWithRetry's lastError
    uploadedFile,   \* uploadFileWithRetry's uploadedFile
    results,        \* the UploadResult list
    toast,          \* the toast of this invocation
    clipboard,      \* what this invocation copied
    unitLog,        \* history: the remote answers and waits of one unit
    ensureLog,      \* history: <<name, parent, id>> of every ensureFolder return
    buildLog,       \* history: the statuses the build loop received, kept
                    \* until the upload loop sends its first request
    batchLog,       \* history: the units that had an upload attempt, and the
                    \* units whose maxRetries attempts all failed
    tokenSets,      \* providerId -> the token set the OAuth client stores
    issued,         \* how many access tokens the token endpoint has issued
    tokenCall,      \* history: the last getValidAccessToken call
    localStorage,   \* LocalStorage: the stored accounts, the default account
                    \* id and the default folder
    clock,          \* how many authorizations have been made (Date.now())
    storageCall,    \* history: the last call that wrote or read LocalStorage
    inFlight,       \* caller -> its call on the stored accounts: the arguments,
                    \* what getStoredAccounts gave it, and how far it is
    lastWrite,      \* history: the call whose saveAccounts was served last
    folderMap,      \* loadFolders' folderMap: folder id -> the listed folder
    pathCall,       \* history: the last buildFolderPath call and what it returned
    run,            \* which handleUpload invocation on the units this is
    firstRun        \* history: the store when the first invocation was over

vars == << uiState, error, selection, files, account, remoteFolders, remoteFiles,
           nextId, pc, folderId, folderIdMap, hasFolders, sortedFolders, bi, fi,
           attempt, lastError, uploadedFile, results, toast, clipboard,
           unitLog, ensureLog, buildLog, batchLog, tokenSets, issued, tokenCall,
           localStorage, clock, storageCall, inFlight, lastWrite,
           folderMap, pathCall, run, firstRun >>

commandVars == << uiState, error, selection, files, account >>
authVars == << tokenSets, issued, tokenCall >>
storageVars == << localStorage, clock, storageCall, inFlight, lastWrite >>

pickerVars == << folderMap, pathCall >>
runVars == << run, firstRun >>

\* the callers whose calls can interleave
Callers == {1, 2}
storeVars == << remoteFolders, remoteFiles, nextId >>
buildVars == << folderId, folderIdMap, hasFolders, sortedFolders, bi >>
retryVars == << attempt, lastError, uploadedFile >>
outputVars == << toast, clipboard >>

\* the command before it is opened, the store, and handleUpload at rest
UploadInit ==
    /\ run = 1
    /\ firstRun = NoRun
    /\ uiState = "closed"
    /\ error = ""
    /\ selection = <<>>
    /\ files = <<>>
    /\ account = "none"
    /\ remoteFolders \in InitialStores
    /\ remoteFiles = {}
    /\ nextId = 4
    /\ pc = "idle"
    /\ folderId = Root
    /\ folderIdMap = EmptyMap
    /\ hasFolders = FALSE
    /\ sortedFolders = <<>>
    /\ bi = 0
    /\ fi = 0
    /\ attempt = 0
    /\ lastError = ""
    /\ uploadedFile = NoFile
    /\ results = <<>>
    /\ toast = NoToast
    /\ clipboard = NoLink
    /\ unitLog = NoLog
    /\ ensureLog = {}
    /\ buildLog = <<>>
    /\ batchLog = NoBatchLog

\* LocalStorage of a fresh install: getStoredAccounts gives {accounts: []}
\* and no default folder is stored
StorageInit ==
    /\ localStorage = EmptyStorage
    /\ clock = 0
    /\ storageCall = NoStorageCall
    /\ inFlight = [c \in Callers |-> NoMutation]
    /\ lastWrite = NoMutation

\* the upload command takes getValidAccessToken by its outcomes (StartUpload),
\* so the token sets stay as they are here
PickerInit ==
    /\ folderMap = EmptyMap
    /\ pathCall = NoPathCall

Init ==
    /\ UploadInit
    /\ StorageInit
    /\ PickerInit
    /\ tokenSets = [p \in Providers |-> NoTokenSet]
    /\ issued = 0
    /\ tokenCall = NoCall


\* ------------------------------------------------ upload-file.tsx: Command
\* loadFolders: getValidAccessToken and listFolders succeed, or their error
\* becomes the command's error state
loadFolders(acc, ok) ==
    /\ account' = acc
    /\ IF ok
       THEN uiState' = "ready" /\ error' = ""
       ELSE uiState' = "error" /\ error' = "Failed to list folders"

\* the command is launched: its init effect reads the selection, flattens it
\* and picks the account
CommandInit ==
    /\ uiState \in {"closed", "error"}
    /\ pc = "idle"
    /\ \E selectedPaths \in Selections, nAccounts \in 0..2, ok \in BOOLEAN :
         LET allFiles == getAllFiles(selectedPaths) IN
         /\ selection' = selectedPaths
         /\ IF selectedPaths = <<>>
            THEN /\ error' = "No files selected. Please select files or folders in Finder."
                 /\ uiState' = "error"
                 /\ files' = <<>>
                 /\ account' = "none"
            ELSE IF allFiles = <<>>
            THEN /\ error' = "No files to upload"
                 /\ uiState' = "error"
                 /\ files' = <<>>
                 /\ account' = "none"
            ELSE /\ files' = allFiles
                 /\ IF nAccounts = 0
                    THEN \* authorize and addAccount, then loadFolders
                         \/ loadFolders("A", ok)
                         \/ /\ error' = "Failed to authenticate with Google. Please try again."
                            /\ uiState' = "error"
                            /\ account' = "none"
                    ELSE IF nAccounts = 1
                    THEN loadFolders("A", ok)
                    ELSE /\ uiState' = "selectAccount"
                         /\ error' = ""
                         /\ account' = "none"
    /\ pc' = "idle"
    /\ UNCHANGED << storeVars, buildVars, fi, retryVars, results, outputVars,
                    unitLog, ensureLog, buildLog, batchLog, authVars, storageVars, pickerVars, runVars >>

\* if (error) return the List.EmptyView titled "Error": the one error view,
\* whichever setError call set the state
errorView == error # ""

handleSelectAccount ==
    /\ uiState = "selectAccount"
    /\ \E accountId \in {"A", "B"}, ok \in BOOLEAN :
         /\ loadFolders(accountId, ok)
    /\ UNCHANGED << selection, files, storeVars, pc, buildVars, fi, retryVars, results,
                    outputVars, unitLog, ensureLog, buildLog, batchLog, authVars, storageVars, pickerVars, runVars >>

\* ------------------------------------------- upload-file.tsx: handleUpload
\* the outer catch of handleUpload: the invocation ends with a failure toast
OuterCatch(message) ==
    /\ toast' = [style |-> "failure", title |-> <<"Upload failed">>, message |-> message]
    /\ pc' = "done"

\* files.some((f) => f.relativePath && dirname(f.relativePath) !== ".")
needsStructure(fs) ==
    \E i \in 1..Len(fs) :
        fs[i].relativePath # <<>> /\ dirname(fs[i].relativePath) # <<".">>

\* the upload loop starts at the first unit
EnterUploadLoop ==
    /\ fi' = 1
    /\ attempt' = 0
    /\ lastError' = ""
    /\ uploadedFile' = NoFile
    /\ pc' = IF Len(files) >= 1 THEN "upload" ELSE "summary"

\* handleUpload up to its first remote call: the token, the map's "." entry,
\* the selection read again, and the sorted folder paths
StartUpload ==
    /\ uiState = "ready"
    /\ account # "none"
    /\ pc = "idle"
    /\ results' = <<>>
    /\ clipboard' = NoLink
    /\ unitLog' = NoLog
    /\ buildLog' = <<>>
    /\ \E dest \in Destinations, selectedPaths \in Selections,
          token \in {"ok", AUTHENTICATION_EXPIRED,
                     "Failed to refresh access token. Please re-authenticate your account."} :
         /\ folderId' = dest
         /\ IF token # "ok"
            THEN /\ OuterCatch(token)
                 /\ folderIdMap' = EmptyMap
                 /\ hasFolders' = FALSE
                 /\ sortedFolders' = <<>>
                 /\ bi' = 0
                 /\ UNCHANGED << fi, retryVars >>
            ELSE /\ folderIdMap' = IF dest # Root THEN MapSet(EmptyMap, <<".">>, dest)
                                   ELSE EmptyMap
                 /\ hasFolders' = \E i \in 1..Len(selectedPaths) : isDirectory(selectedPaths[i])
                 /\ toast' = [style |-> "animated", title |-> <<"Uploading...">>, message |-> ""]
                 /\ IF needsStructure(files) /\ hasFolders'
                    THEN /\ sortedFolders' = sortByDepth(extractFolderStructure(files))
                         /\ bi' = 1
                         /\ pc' = "search"
                         /\ UNCHANGED << fi, retryVars >>
                    ELSE /\ sortedFolders' = <<>>
                         /\ bi' = 0
                         /\ EnterUploadLoop
    /\ UNCHANGED << commandVars, authVars, storageVars, pickerVars, runVars, storeVars, ensureLog, batchLog >>

\* the folder path the build loop is at, its name part and its parent's id
folderPath == sortedFolders[bi]
folderNamePart == Last(folderPath)
parentPath == IF Len(folderPath) > 1 THEN Front(folderPath) ELSE <<".">>
buildParentId == MapGet(folderIdMap, parentPath)

\* the parent a folder or file gets in the store: no parents means My Drive
StoreParent(parentFolderId) == IF parentFolderId = Undefined THEN Root ELSE parentFolderId

\* the non-trashed folders ensureFolder's query matches
SearchMatches(name, parentFolderId) ==
    {f \in remoteFolders : f.name = name /\ f.parent = StoreParent(parentFolderId)}

\* a faulty variant of BuildLoopNext: the upload loop starts after the first
\* folder
BuildLoopNextOnce(id) ==
    /\ folderIdMap' = MapSet(folderIdMap, folderPath, id)
    /\ ensureLog' = ensureLog \cup
                      {<<folderNamePart, StoreParent(buildParentId), id>>}
    /\ bi' = bi
    /\ EnterUploadLoop

\* ensureFolder returned folder: the loop sets the map and goes on
BuildLoopNext(id) ==
    /\ folderIdMap' = MapSet(folderIdMap, folderPath, id)
    /\ ensureLog' = ensureLog \cup
                      {<<folderNamePart, StoreParent(buildParentId), id>>}
    /\ IF bi < Len(sortedFolders)
       THEN /\ bi' = bi + 1
            /\ pc' = "search"
            /\ UNCHANGED << fi, retryVars >>
       ELSE /\ bi' = bi
            /\ EnterUploadLoop

\* a faulty variant of SearchOutcome: a 401 is treated like any failed search
SearchOutcomeNo401(status, matches) ==
    IF status = 200 /\ matches # {} THEN "found" ELSE "create"

\* what ensureFolder does with the search response
\* (found: return files[0]; 401: throw; otherwise go on to createFolder)
SearchOutcome(status, matches) ==
    IF status = 200 /\ matches # {} THEN "found"
    ELSE IF status = 401 THEN "throw"
    ELSE "create"

\* ensureFolder: the search request and its response
EnsureFolderSearch ==
    /\ pc = "search"
    /\ \E status \in FolderStatuses :
         /\ buildLog' = Append(buildLog, status)
         /\ LET matches == SearchMatches(folderNamePart, buildParentId)
                outcome == SearchOutcome(status, matches)
            IN  IF outcome = "found"
                THEN /\ \E f \in matches : BuildLoopNext(f.id)
                     /\ UNCHANGED toast
                ELSE IF outcome = "throw"
                THEN /\ OuterCatch(AUTHENTICATION_EXPIRED)
                     /\ UNCHANGED << folderIdMap, bi, fi, retryVars, ensureLog >>
                ELSE /\ pc' = "create"
                     /\ UNCHANGED << folderIdMap, bi, fi, retryVars, ensureLog, toast >>
    /\ UNCHANGED << commandVars, authVars, storageVars, pickerVars, runVars, storeVars, folderId, hasFolders, sortedFolders,
                    results, clipboard, unitLog, batchLog >>

\* the message createFolder throws for a response that is not ok
createFolderError(status) ==
    IF status = 401 THEN AUTHENTICATION_EXPIRED ELSE "Failed to create folder: 500"

\* ensureFolder: createFolder's request and its response
EnsureFolderCreate ==
    /\ pc = "create"
    /\ \E status \in FolderStatuses :
         /\ buildLog' = Append(buildLog, status)
         /\ IF status = 200
            THEN /\ remoteFolders' = remoteFolders \cup
                       {[id |-> Id(nextId), name |-> folderNamePart,
                         parent |-> StoreParent(buildParentId)]}
                 /\ nextId' = nextId + 1
                 /\ BuildLoopNext(Id(nextId))
                 /\ UNCHANGED toast
            ELSE /\ OuterCatch(createFolderError(status))
                 /\ UNCHANGED << remoteFolders, nextId, folderIdMap, bi, fi, retryVars,
                                 ensureLog >>
    /\ UNCHANGED << commandVars, authVars, storageVars, pickerVars, runVars, remoteFiles, folderId, hasFolders, sortedFolders,
                    results, clipboard, unitLog, batchLog >>


\* ---------------------------------------------------- the upload loop
file == files[fi]

\* a faulty variant of parentIdOf: the index is not consulted
parentIdOfDestination(f) == IF folderId = Root THEN Undefined ELSE folderId

\* the parent folder of a unit (undefined: the file goes to My Drive)
parentIdOf(f) ==
    LET fileDir == dirname(f.relativePath)
    IN  IF /\ f.relativePath # <<>>
           /\ hasFolders
           /\ fileDir # <<".">>
           /\ MapHas(folderIdMap, fileDir)
        THEN MapGet(folderIdMap, fileDir)
        ELSE IF folderId = Root THEN Undefined ELSE folderId

\* the loop goes on to the next unit, or ends
NextUnit ==
    /\ attempt' = 0
    /\ lastError' = ""
    /\ uploadedFile' = NoFile
    /\ IF fi < Len(files)
       THEN fi' = fi + 1 /\ pc' = "upload"
       ELSE fi' = fi /\ pc' = "summary"

\* a faulty variant of UnitCatch: a failed unit ends the loop
UnitCatchBreaks(message) ==
    /\ results' = Append(results, [success |-> FALSE, file |-> NoFile,
                                   error |-> message, localPath |-> file.path])
    /\ attempt' = 0
    /\ lastError' = ""
    /\ uploadedFile' = NoFile
    /\ fi' = fi
    /\ pc' = "summary"

\* the catch of the loop body: the failure is recorded and the loop goes on
UnitCatch(message) ==
    /\ results' = Append(results, [success |-> FALSE, file |-> NoFile,
                                   error |-> message, localPath |-> file.path])
    /\ NextUnit

\* the end of the loop body's try: the success is recorded
UnitSuccess(uploaded) ==
    /\ results' = Append(results, [success |-> TRUE, file |-> uploaded,
                                   error |-> "", localPath |-> file.path])
    /\ NextUnit

\* --------------------------------------- google-drive.ts: uploadFileWithRetry
\* the message uploadFile throws for a response that is not ok
uploadError(status) ==
    IF status = 401 THEN AUTHENTICATION_EXPIRED
    ELSE IF status = 404 THEN "Failed to upload file: 404"
    ELSE "Failed to upload file: 500"

\* a faulty variant of caught: the first error is kept
caughtFirst(previous, thrown) == IF previous = "" THEN thrown ELSE previous

\* the catch of the retry loop: lastError = error
caught(previous, thrown) == thrown

\* a faulty variant of retries: the loop always attempts again
retriesForever(att, thrown) == TRUE

\* whether the catch waits and the loop attempts again
retries(att, thrown) == att < maxRetries - 1

\* a faulty variant of backoffDelay: the exponent counts attempts from 1
backoffDelayFromOne(att) == Pow2(att + 1)

\* the wait before the next attempt, in units of 1000 ms
backoffDelay(att) == Pow2(att)

\* a faulty variant of permissionThrows: the error of makeFilePublic is not caught
permissionThrowsUncaught(status) == status # 200

\* whether a makeFilePublic response makes the attempt throw
\* (its error is caught and dropped)
permissionThrows(status) == FALSE

\* the history of the unit at fi
LogOfUnit == IF unitLog.unit = fi THEN unitLog ELSE [NoLog EXCEPT !.unit = fi]

\* the catch of an attempt: wait and retry, or leave the loop and throw
AttemptCatch(thrown) ==
    LET err == caught(lastError, thrown)
    IN  IF retries(attempt, thrown)
        THEN /\ lastError' = err
             /\ pc' = "backoff"
             /\ UNCHANGED << fi, attempt, uploadedFile, results >>
        ELSE UnitCatch(err)

\* uploadFile: one attempt and its response
UploadAttempt ==
    /\ pc = "upload"
    /\ \E status \in UploadStatuses, link \in BOOLEAN :
         /\ status # 200 => link = FALSE
         /\ IF status = 200
            THEN /\ remoteFiles' = remoteFiles \cup
                       {[id |-> Id(nextId), name |-> file.name,
                         parent |-> StoreParent(parentIdOf(file))]}
                 /\ nextId' = nextId + 1
                 /\ uploadedFile' = [id |-> Id(nextId), name |-> file.name,
                                     webViewLink |-> link]
                 /\ pc' = "public"
                 /\ unitLog' = [LogOfUnit EXCEPT
                                   !.responses = Append(@, status),
                                   !.copies = @ + 1]
                 /\ UNCHANGED << fi, attempt, lastError, results >>
            ELSE /\ unitLog' = [LogOfUnit EXCEPT !.responses = Append(@, status)]
                 /\ AttemptCatch(uploadError(status))
                 /\ UNCHANGED << remoteFiles, nextId >>
    /\ batchLog' = [attempted |-> batchLog.attempted \cup {fi},
                    exhausted |-> IF /\ Len(unitLog'.responses) = maxRetries
                                     /\ Last(unitLog'.responses) # 200
                                  THEN batchLog.exhausted \cup {fi}
                                  ELSE batchLog.exhausted]
    /\ buildLog' = <<>>
    /\ UNCHANGED << commandVars, authVars, storageVars, pickerVars, runVars, remoteFolders, buildVars, outputVars,
                    ensureLog >>

\* the setTimeout between two attempts
Backoff ==
    /\ pc = "backoff"
    /\ unitLog' = [unitLog EXCEPT !.delays = Append(@, backoffDelay(attempt))]
    /\ attempt' = attempt + 1
    /\ pc' = "upload"
    /\ UNCHANGED << commandVars, authVars, storageVars, pickerVars, runVars, storeVars, buildVars, fi, lastError,
                    uploadedFile, results, outputVars, ensureLog, buildLog, batchLog >>

\* makeFilePublic: the permission request and its response
MakePublic ==
    /\ pc = "public"
    /\ \E status \in PermissionStatuses :
         /\ unitLog' = [unitLog EXCEPT !.permission = status]
         /\ IF status # 200 /\ permissionThrows(status)
            THEN AttemptCatch("Failed to make file public: 403")
            ELSE UnitSuccess(uploadedFile)
    /\ UNCHANGED << commandVars, authVars, storageVars, pickerVars, runVars, storeVars, buildVars, outputVars,
                    ensureLog, buildLog, batchLog >>


\* ------------------------------------------- handleUpload: the summary
CountWhere(rs, flag) == Cardinality({i \in 1..Len(rs) : rs[i].success = flag})

\* a faulty variant of linkToCopy: the destination folder's link comes first
linkToCopyFolderFirst(rs, successful, dest) ==
    IF dest # Root
    THEN [kind |-> "folder", id |-> dest]
    ELSE IF successful = 1 /\ rs[1].file.webViewLink
    THEN [kind |-> "file", id |-> rs[1].file.id]
    ELSE NoLink

\* what the success branch copies: the single file's link, else the
\* destination folder's link, else nothing
linkToCopy(rs, successful, dest) ==
    IF successful = 1 /\ rs[1].file.webViewLink
    THEN [kind |-> "file", id |-> rs[1].file.id]
    ELSE IF dest # Root
    THEN [kind |-> "folder", id |-> dest]
    ELSE NoLink

\* the message of the success toast
copiedMessage(link) ==
    IF link.kind = "file" THEN "Link copied to clipboard"
    ELSE IF link.kind = "folder" THEN "Folder link copied to clipboard"
    ELSE "Uploaded to folder"

\* after the loop: the last used account, the counts, the toast, the
\* clipboard, and popToRoot when nothing failed
Summarize ==
    /\ pc = "summary"
    /\ pc' = "done"
    /\ LET successful == CountWhere(results, TRUE)
           failed == CountWhere(results, FALSE)
       IN  IF failed = 0
           THEN /\ \E copyOk \in BOOLEAN :
                     LET link == linkToCopy(results, successful, folderId)
                     IN  IF copyOk
                         THEN /\ clipboard' = link
                              /\ toast' = [style |-> "success",
                                           title |-> <<"Uploaded", successful>>,
                                           message |-> copiedMessage(link)]
                         ELSE /\ clipboard' = NoLink
                              /\ link # NoLink
                              /\ toast' = [style |-> "success",
                                           title |-> <<"Uploaded", successful>>,
                                           message |-> "Uploaded to folder"]
                /\ uiState' = "closed"
           ELSE IF successful > 0
           THEN /\ toast' = [style |-> "success",
                             title |-> <<"Uploaded", successful, "failed", failed>>,
                             message |-> "Some files could not be uploaded"]
                /\ UNCHANGED << clipboard, uiState >>
           ELSE /\ toast' = [style |-> "failure", title |-> <<"Upload failed">>,
                             message |-> "All files failed"]
                /\ UNCHANGED << clipboard, uiState >>
    /\ UNCHANGED << error, selection, files, account, storeVars, buildVars, fi,
                    retryVars, results, unitLog, ensureLog, buildLog, batchLog, authVars, storageVars, pickerVars, runVars >>

Next ==
    \/ CommandInit
    \/ handleSelectAccount
    \/ StartUpload
    \/ EnsureFolderSearch
    \/ EnsureFolderCreate
    \/ UploadAttempt
    \/ Backoff
    \/ MakePublic
    \/ Summarize

Spec == Init /\ [][Next]_vars

\* ------------------------------------------- the same batch uploaded twice
\* every remote call is answered with success
AllCallsSucceed ==
    \/ StartUpload /\ pc' # "done"
    \/ EnsureFolderSearch /\ Last(buildLog') = 200
    \/ EnsureFolderCreate /\ Last(buildLog') = 200
    \/ UploadAttempt /\ Last(unitLog'.responses) = 200
    \/ MakePublic /\ unitLog'.permission = 200
    \/ Summarize

\* after an invocation that uploaded every unit the command is opened again on
\* the same selection with the same account, and shows the picker
Rerun ==
    /\ pc = "done"
    /\ run = 1
    /\ results # <<>>
    /\ \A i \in 1..Len(results) : results[i].success
    /\ run' = 2
    /\ firstRun' = [folders |-> remoteFolders, files |-> remoteFiles,
                    folderId |-> folderId, hasFolders |-> hasFolders]
    /\ pc' = "idle"
    /\ uiState' = "ready"
    /\ UNCHANGED << error, selection, files, account, storeVars, buildVars, fi, retryVars,
                    results, outputVars, unitLog, ensureLog, buildLog, batchLog,
                    authVars, storageVars, pickerVars >>

TwiceNext ==
    \/ CommandInit
    \/ handleSelectAccount
    \/ AllCallsSucceed
    \/ Rerun

SpecTwice == Init /\ [][TwiceNext]_vars

\* ------------------------------------------- the flattener taken on its own
\* the paths Finder can hand over: any file or directory of the disk below
\* /Users/a that can be clicked, each at most once
SelectablePaths ==
    {DocPdf, EmptyDir, XJpg, DotGit, Locked} \cup {LevelDir(k) : k \in 1..MaxDepth}

FlattenSelections ==
    UNION { {sel \in [1..n -> SelectablePaths] :
                \A i, j \in 1..n : i # j => sel[i] # sel[j]} : n \in 0..MaxSelected }

\* getAllFiles on the selection the command reads when it opens (its effect
\* runs once), then extractFolderStructure and the sort by depth on the result
Flatten ==
    /\ selection = <<>>
    /\ \E selectedPaths \in FlattenSelections :
         /\ selection' = selectedPaths
         /\ files' = getAllFiles(selectedPaths)
         /\ sortedFolders' = sortByDepth(extractFolderStructure(files'))
    /\ UNCHANGED << uiState, error, account, storeVars, pc, folderId, folderIdMap,
                    hasFolders, bi, fi, retryVars, results, outputVars, unitLog,
                    ensureLog, buildLog, batchLog, authVars, storageVars, pickerVars, runVars >>

FlattenNext == Flatten

SpecFlatten == Init /\ [][FlattenNext]_vars

\* ------------------------------------------------------------------ auth.ts
\* what the token endpoint answers to a refresh request: a token response
\* with or without a refresh_token, a response that is not ok whose body is
\* JSON with an error field or no JSON at all, or no response (fetch rejects)
RefreshResponses ==
    { [kind |-> "ok", refresh_token |-> TRUE, error |-> ""],
      [kind |-> "ok", refresh_token |-> FALSE, error |-> ""],
      [kind |-> "notOk", refresh_token |-> FALSE, error |-> "invalid_grant"],
      [kind |-> "notOk", refresh_token |-> FALSE, error |-> "invalid_token"],
      [kind |-> "notOk", refresh_token |-> FALSE, error |-> "invalid_client"],
      [kind |-> "notOk", refresh_token |-> FALSE, error |-> "not JSON"],
      [kind |-> "rejected", refresh_token |-> FALSE, error |-> ""] }

NoResponse == [kind |-> "none", refresh_token |-> FALSE, error |-> ""]

\* the messages of the errors refreshTokens throws, and of a rejected fetch
RefreshFailedMessage == "Failed to refresh access token. Please re-authenticate your account."
RefreshExpiredMessage == "Authentication expired. Please re-authenticate your account."
FetchFailedMessage == "fetch failed"

\* a message as its words, for String.includes
Words(message) ==
    IF message = RefreshFailedMessage
    THEN <<"Failed", "to", "refresh", "access", "token.", "Please",
           "re-authenticate", "your", "account.">>
    ELSE IF message = RefreshExpiredMessage
    THEN <<"Authentication", "expired.", "Please", "re-authenticate", "your", "account.">>
    ELSE IF message = FetchFailedMessage THEN <<"fetch", "failed">>
    ELSE <<message>>

\* errorMessage.includes(needle), for a needle that is one word
includes(message, needle) == Contains(Words(message), needle)

\* the message refreshTokens throws for a response that is not ok
refreshErrorMessage(response) ==
    IF response.error \in {"invalid_grant", "invalid_token"}
    THEN RefreshExpiredMessage
    ELSE RefreshFailedMessage

\* refreshTokens: the message it throws ("" when it returns), and the token
\* set client.setTokens stores from the token response it returns
refreshThrows(response) ==
    IF response.kind = "rejected" THEN FetchFailedMessage
    ELSE IF response.kind = "notOk" THEN refreshErrorMessage(response)
    ELSE ""

\* a faulty variant of refreshedTokenSet: the refresh token is taken from the
\* response as it was answered
refreshedTokenSetAsAnswered(tokenSet, response) ==
    [accessToken |-> issued + 1,
     refreshToken |-> IF response.refresh_token THEN issued + 1 ELSE 0,
     expired |-> FALSE]

\* tokenResponse.refresh_token = tokenResponse.refresh_token ?? refreshToken,
\* and the token set client.setTokens stores from that response
refreshedTokenSet(tokenSet, response) ==
    [accessToken |-> issued + 1,
     refreshToken |-> IF response.refresh_token THEN issued + 1 ELSE tokenSet.refreshToken,
     expired |-> FALSE]

\* a faulty variant of needsRefresh: isExpired() is not asked
needsRefreshAlways(tokenSet) == tokenSet.refreshToken # 0

\* tokenSet.refreshToken && tokenSet.isExpired()
needsRefresh(tokenSet) == tokenSet.refreshToken # 0 /\ tokenSet.expired

\* the catch of getValidAccessToken: what it throws for a caught message
rethrown(message) ==
    IF includes(message, "invalid_grant") \/ includes(message, "invalid_token")
    THEN AUTHENTICATION_EXPIRED
    ELSE message

\* a faulty variant of hasAccessToken: the token set is not looked at
hasAccessTokenAlways(tokenSet) == TRUE

\* if (tokenSet?.accessToken)
hasAccessToken(tokenSet) == tokenSet.accessToken # 0

\* a faulty variant of returnedAfterRefresh: the token set read before the
\* refresh is used
returnedBeforeRefresh(tokenSet, updatedTokenSet) == tokenSet.accessToken

\* return updatedTokenSet?.accessToken || ""
returnedAfterRefresh(tokenSet, updatedTokenSet) == updatedTokenSet.accessToken

\* getValidAccessToken(account) for the account's providerId, the token
\* endpoint answering response when it is asked
getValidAccessToken(providerId, response) ==
    LET tokenSet == tokenSets[providerId]
        call == [providerId |-> providerId, before |-> tokenSet, after |-> tokenSet,
                 response |-> NoResponse, fetches |-> 0, returned |-> 0, thrown |-> "",
                 othersKept |-> TRUE]
    IN
    IF hasAccessToken(tokenSet)
    THEN IF needsRefresh(tokenSet)
         THEN IF refreshThrows(response) = ""
              THEN /\ issued < MaxIssued
                   /\ tokenSets' = [tokenSets EXCEPT
                                       ![providerId] = refreshedTokenSet(tokenSet, response)]
                   /\ issued' = issued + 1
                   /\ tokenCall' = [call EXCEPT
                                       !.after = tokenSets'[providerId],
                                       !.response = response,
                                       !.fetches = 1,
                                       !.returned = returnedAfterRefresh(
                                                        tokenSet, tokenSets'[providerId]),
                                       !.othersKept =
                                           \A other \in Providers \ {providerId} :
                                               tokenSets'[other] = tokenSets[other]]
              ELSE /\ UNCHANGED << tokenSets, issued >>
                   /\ tokenCall' = [call EXCEPT
                                       !.response = response,
                                       !.fetches = 1,
                                       !.thrown = rethrown(refreshThrows(response))]
         ELSE /\ UNCHANGED << tokenSets, issued >>
              /\ tokenCall' = [call EXCEPT !.returned = tokenSet.accessToken]
    ELSE /\ UNCHANGED << tokenSets, issued >>
         /\ tokenCall' = [call EXCEPT !.thrown = AUTHENTICATION_EXPIRED]

\* the frame of the token actions: the upload command is not running
authFrame ==
    UNCHANGED << storageVars, pickerVars, runVars, commandVars, storeVars, pc, buildVars, fi, retryVars, results,
                 outputVars, unitLog, ensureLog, buildLog, batchLog >>

GetValidAccessToken ==
    /\ \E providerId \in Providers, response \in RefreshResponses :
         getValidAccessToken(providerId, response)
    /\ authFrame

\* time passes: isExpired() of a stored token set becomes true
TokenExpires ==
    /\ \E providerId \in Providers :
         /\ tokenSets[providerId].accessToken # 0
         /\ ~tokenSets[providerId].expired
         /\ tokenSets' = [tokenSets EXCEPT ![providerId].expired = TRUE]
    /\ UNCHANGED << issued, tokenCall >>
    /\ authFrame

\* the token sets a client can hold when a command starts: none, or the
\* first token issued, with or without a refresh token, expired or not
InitialTokenSets ==
    {NoTokenSet} \cup
    {[accessToken |-> 1, refreshToken |-> r, expired |-> e] : r \in {0, 1}, e \in BOOLEAN}

AuthInit ==
    /\ UploadInit
    /\ StorageInit
    /\ PickerInit
    /\ tokenSets \in [Providers -> InitialTokenSets]
    /\ issued = 1
    /\ tokenCall = NoCall

AuthNext ==
    \/ GetValidAccessToken
    \/ TokenExpires

SpecAuth == AuthInit /\ [][AuthNext]_vars

\* ------------------------------------------------------ auth.ts: authorize
\* how the sign-in of authorize ends: the user does not grant access
\* (client.authorize rejects), fetchTokens gets a response that is not ok, or
\* fetchTokens returns a token response with or without a refresh_token
AuthorizationResponses ==
    { [kind |-> "cancelled", refresh_token |-> FALSE, error |-> ""],
      [kind |-> "tokensNotOk", refresh_token |-> FALSE, error |-> ""],
      [kind |-> "tokens", refresh_token |-> TRUE, error |-> ""],
      [kind |-> "tokens", refresh_token |-> FALSE, error |-> ""] }

AuthorizeRejectedMessage == "authorize rejected"
FetchTokensFailedMessage == "Failed to authenticate with Google. Please try again."

\* the message the sign-in throws ("" when fetchTokens returns)
authorizationThrows(answer) ==
    IF answer.kind = "cancelled" THEN AuthorizeRejectedMessage
    ELSE IF answer.kind = "tokensNotOk" THEN FetchTokensFailedMessage
    ELSE ""

\* the token set client.setTokens stores from the response of fetchTokens
authorizedTokenSet(answer) ==
    [accessToken |-> issued + 1,
     refreshToken |-> IF answer.refresh_token THEN issued + 1 ELSE 0,
     expired |-> FALSE]

\* authorize(client) for the client of a provider id: a stored access token
\* is returned, after a refresh when it is expired (an error of refreshTokens
\* is thrown as it is); with no access token stored the user signs in, answer
\* being how that ends
authorize(providerId, response, answer) ==
    LET tokenSet == tokenSets[providerId]
        call == [providerId |-> providerId, before |-> tokenSet, after |-> tokenSet,
                 response |-> NoResponse, fetches |-> 0, returned |-> 0, thrown |-> "",
                 othersKept |-> TRUE]
        othersKept == \A other \in Providers \ {providerId} :
                          tokenSets'[other] = tokenSets[other]
    IN
    IF hasAccessToken(tokenSet)
    THEN IF needsRefresh(tokenSet)
         THEN IF refreshThrows(response) = ""
              THEN /\ issued < MaxIssued
                   /\ tokenSets' = [tokenSets EXCEPT
                                       ![providerId] = refreshedTokenSet(tokenSet, response)]
                   /\ issued' = issued + 1
                   /\ tokenCall' = [call EXCEPT
                                       !.after = tokenSets'[providerId],
                                       !.response = response,
                                       !.fetches = 1,
                                       !.returned = tokenSets'[providerId].accessToken,
                                       !.othersKept = othersKept]
              ELSE /\ UNCHANGED << tokenSets, issued >>
                   /\ tokenCall' = [call EXCEPT
                                       !.response = response,
                                       !.fetches = 1,
                                       !.thrown = refreshThrows(response)]
         ELSE /\ UNCHANGED << tokenSets, issued >>
              /\ tokenCall' = [call EXCEPT !.returned = tokenSet.accessToken]
    ELSE IF authorizationThrows(answer) = ""
         THEN /\ issued < MaxIssued
              /\ tokenSets' = [tokenSets EXCEPT ![providerId] = authorizedTokenSet(answer)]
              /\ issued' = issued + 1
              /\ tokenCall' = [call EXCEPT
                                  !.after = tokenSets'[providerId],
                                  !.response = answer,
                                  !.fetches = 1,
                                  !.returned = tokenSets'[providerId].accessToken,
                                  !.othersKept = othersKept]
         ELSE /\ UNCHANGED << tokenSets, issued >>
              /\ tokenCall' = [call EXCEPT
                                  !.response = answer,
                                  !.fetches = IF answer.kind = "cancelled" THEN 0 ELSE 1,
                                  !.thrown = authorizationThrows(answer)]

Authorize ==
    /\ \E providerId \in Providers, response \in RefreshResponses,
          answer \in AuthorizationResponses :
         authorize(providerId, response, answer)
    /\ authFrame

RefreshNext ==
    \/ GetValidAccessToken
    \/ Authorize
    \/ TokenExpires

SpecRefresh == AuthInit /\ [][RefreshNext]_vars

\* ------------------------------------------ auth.ts: the stored accounts
\* what getUserInfo answers for the Google users that can sign in; sub is ""
\* when the answer has none
UserInfos == { [sub |-> "sub-a", email |-> "a@x"],
               [sub |-> "sub-b", email |-> "b@x"],
               [sub |-> "", email |-> "c@x"] }

\* const accountId = userInfo.sub || userInfo.email
accountIdOf(userInfo) == IF userInfo.sub # "" THEN userInfo.sub ELSE userInfo.email

AccountIds == {accountIdOf(userInfo) : userInfo \in UserInfos}

\* accounts.findIndex((a) => a.id === id), counted from 1; 0 when there is none
findIndex(accounts, id) ==
    IF \E i \in 1..Len(accounts) : accounts[i].id = id
    THEN CHOOSE i \in 1..Len(accounts) :
             /\ accounts[i].id = id
             /\ \A j \in 1..(i - 1) : accounts[j].id # id
    ELSE 0

\* a faulty variant of addAccount: the account is always pushed
addAccountAlwaysPush(stored, accessToken, providerId, userInfo) ==
    LET acc == [id |-> accountIdOf(userInfo), email |-> userInfo.email,
                    accessToken |-> accessToken, providerId |-> providerId]
        accounts == Append(stored.accounts, acc)
    IN  [stored EXCEPT
            !.accounts = accounts,
            !.defaultAccountId =
                IF Len(accounts) = 1 /\ stored.defaultAccountId = NoId THEN acc.id ELSE @]

\* addAccount, given what getUserInfo answered: the stored object it writes
addAccount(stored, accessToken, providerId, userInfo) ==
    LET acc == [id |-> accountIdOf(userInfo), email |-> userInfo.email,
                    accessToken |-> accessToken, providerId |-> providerId]
        existingIndex == findIndex(stored.accounts, acc.id)
        accounts == IF existingIndex > 0
                    THEN [stored.accounts EXCEPT ![existingIndex] = acc]
                    ELSE Append(stored.accounts, acc)
    IN  [stored EXCEPT
            !.accounts = accounts,
            !.defaultAccountId =
                IF Len(accounts) = 1 /\ stored.defaultAccountId = NoId THEN acc.id ELSE @]

\* a faulty variant of removeAccount: the default is left as it is
removeAccountKeepsDefault(stored, accountId) ==
    LET kept(a) == a.id # accountId
    IN  [stored EXCEPT !.accounts = SelectSeq(stored.accounts, kept)]

\* removeAccount: the stored object it writes
removeAccount(stored, accountId) ==
    LET kept(a) == a.id # accountId
        accounts == SelectSeq(stored.accounts, kept)
    IN  [stored EXCEPT
            !.accounts = accounts,
            !.defaultAccountId =
                IF stored.defaultAccountId = accountId
                THEN (IF Len(accounts) > 0 THEN accounts[1].id ELSE NoId)
                ELSE @]

\* setDefaultAccount: the stored object it writes
setDefaultAccount(stored, accountId) == [stored EXCEPT !.defaultAccountId = accountId]

\* getDefaultAccount
getDefaultAccount(stored) ==
    IF stored.defaultAccountId = NoId
    THEN (IF stored.accounts = <<>> THEN NoAccount ELSE stored.accounts[1])
    ELSE IF findIndex(stored.accounts, stored.defaultAccountId) > 0
    THEN stored.accounts[findIndex(stored.accounts, stored.defaultAccountId)]
    ELSE NoAccount

\* a faulty variant of reAuthenticateAccount: the record is written with the
\* id getUserInfo gives
reAuthenticateAccountNewId(stored, acc, token, providerId, userInfo) ==
    LET accountIndex == findIndex(stored.accounts, acc.id)
    IN  IF accountIndex > 0
        THEN [stored EXCEPT !.accounts[accountIndex] =
                 [id |-> accountIdOf(userInfo), email |-> userInfo.email,
                  accessToken |-> token, providerId |-> providerId]]
        ELSE addAccount(stored, token, providerId, userInfo)

\* reAuthenticateAccount, given the new token, the new provider id and what
\* getUserInfo answered: the stored object it writes
reAuthenticateAccount(stored, acc, token, providerId, userInfo) ==
    LET accountIndex == findIndex(stored.accounts, acc.id)
    IN  IF accountIndex > 0
        THEN [stored EXCEPT !.accounts[accountIndex] =
                 [id |-> acc.id, email |-> userInfo.email,
                  accessToken |-> token, providerId |-> providerId]]
        ELSE addAccount(stored, token, providerId, userInfo)

\* ------------------------------------------------------ folder-storage.ts
\* a faulty variant of getDefaultFolder: the account id is not compared
getDefaultFolderOfAnyAccount(stored, accountId) == stored.defaultFolder

\* getDefaultFolder(accountId?): NoFolder stands for undefined
getDefaultFolder(stored, accountId) ==
    IF stored.defaultFolder = NoFolder THEN NoFolder
    ELSE IF accountId # NoId /\ stored.defaultFolder.accountId # accountId THEN NoFolder
    ELSE stored.defaultFolder

\* setDefaultFolder: the stored object it writes
setDefaultFolder(stored, folder) == [stored EXCEPT !.defaultFolder = folder]

\* ----------------------------------------------- the calls on LocalStorage
\* the commands are not uploading and no token is asked for
storageFrame ==
    UNCHANGED << commandVars, authVars, storeVars, pc, buildVars, fi, retryVars,
                 results, outputVars, unitLog, ensureLog, buildLog, batchLog,
                 inFlight, lastWrite, pickerVars, runVars >>

\* the accounts a view can hand to a call: the stored ones, and for each id
\* a record that is not stored (any more)
KnownAccounts ==
    {localStorage.accounts[i] : i \in 1..Len(localStorage.accounts)} \cup
    {[NoAccount EXCEPT !.id = id] : id \in AccountIds}

StorageCall(op, id, acc) ==
    [op |-> op, id |-> id, before |-> localStorage, account |-> acc,
     result |-> NoFolder]

\* handleAddAccount: authorize with a new provider id, then addAccount
AddAccount ==
    /\ clock < MaxAuthorizations
    /\ \E userInfo \in UserInfos :
         /\ localStorage' = addAccount(localStorage, clock + 1, clock + 1, userInfo)
         /\ storageCall' = StorageCall("addAccount", accountIdOf(userInfo), NoAccount)
    /\ clock' = clock + 1
    /\ storageFrame

RemoveAccount ==
    /\ \E accountId \in AccountIds :
         /\ localStorage' = removeAccount(localStorage, accountId)
         /\ storageCall' = StorageCall("removeAccount", accountId, NoAccount)
    /\ UNCHANGED clock
    /\ storageFrame

SetDefaultAccount ==
    /\ \E accountId \in AccountIds :
         /\ localStorage' = setDefaultAccount(localStorage, accountId)
         /\ storageCall' = StorageCall("setDefaultAccount", accountId, NoAccount)
    /\ UNCHANGED clock
    /\ storageFrame

\* reAuthenticateAccount: authorize with a new provider id, getUserInfo, and
\* the write
ReAuthenticateAccount ==
    /\ clock < MaxAuthorizations
    /\ \E acc \in KnownAccounts, userInfo \in UserInfos :
         /\ localStorage' = reAuthenticateAccount(localStorage, acc, clock + 1,
                                                  clock + 1, userInfo)
         /\ storageCall' = StorageCall("reAuthenticateAccount", acc.id, acc)
    /\ clock' = clock + 1
    /\ storageFrame

\* handleSetDefaultFolder for the active account, one of the stored ones
SetDefaultFolder ==
    /\ \E i \in 1..Len(localStorage.accounts), folder \in Destinations :
         /\ localStorage' = setDefaultFolder(localStorage,
                                [id |-> folder, accountId |-> localStorage.accounts[i].id])
         /\ storageCall' = StorageCall("setDefaultFolder", localStorage.accounts[i].id,
                                        NoAccount)
    /\ UNCHANGED clock
    /\ storageFrame

\* loadFolders: getDefaultFolder(acc.id)
GetDefaultFolder ==
    /\ \E accountId \in AccountIds :
         storageCall' = [StorageCall("getDefaultFolder", accountId, NoAccount) EXCEPT
                            !.result = getDefaultFolder(localStorage, accountId)]
    /\ UNCHANGED << localStorage, clock >>
    /\ storageFrame

StorageNext ==
    \/ AddAccount
    \/ RemoveAccount
    \/ SetDefaultAccount
    \/ ReAuthenticateAccount
    \/ SetDefaultFolder
    \/ GetDefaultFolder

SpecStorage == Init /\ [][StorageNext]_vars

\* --------------------------- auth.ts: calls on the stored accounts, interleaved
\* Each call awaits getStoredAccounts and then awaits LocalStorage.setItem:
\* LocalStorage serves the read and the write at two moments, and it can
\* serve another call in between.
Mutations == {"addAccount", "removeAccount", "setDefaultAccount", "reAuthenticateAccount"}

\* a faulty variant of written: the write is computed from what is stored when
\* it is served
writtenFromStored(call) ==
    IF call.op = "addAccount"
    THEN addAccount(localStorage, call.token, call.token, call.userInfo)
    ELSE IF call.op = "removeAccount" THEN removeAccount(localStorage, call.id)
    ELSE IF call.op = "setDefaultAccount" THEN setDefaultAccount(localStorage, call.id)
    ELSE reAuthenticateAccount(localStorage, [NoAccount EXCEPT !.id = call.id],
                               call.token, call.token, call.userInfo)

\* what the call hands to LocalStorage.setItem: computed from its own read
written(call) ==
    IF call.op = "addAccount"
    THEN addAccount(call.read, call.token, call.token, call.userInfo)
    ELSE IF call.op = "removeAccount" THEN removeAccount(call.read, call.id)
    ELSE IF call.op = "setDefaultAccount" THEN setDefaultAccount(call.read, call.id)
    ELSE reAuthenticateAccount(call.read, [NoAccount EXCEPT !.id = call.id],
                               call.token, call.token, call.userInfo)

\* the calls do not upload, ask for no token and leave the default folder
interleavedFrame ==
    UNCHANGED << commandVars, authVars, storeVars, pc, buildVars, fi, retryVars,
                 results, outputVars, unitLog, ensureLog, buildLog, batchLog,
                 storageCall, pickerVars, runVars >>

\* a caller starts a call; getStoredAccounts is served.  addAccount and
\* reAuthenticateAccount have authorized (a new token and provider id) and
\* asked getUserInfo before.  reAuthenticateAccount of an account that is not
\* in what it read goes on as addAccount, which reads again.
MutationRead(c) ==
    /\ inFlight[c].phase \in {"none", "written"}
    /\ clock < MaxMutations
    /\ \E op \in Mutations, id \in AccountIds, userInfo \in UserInfos :
         /\ op = "addAccount" => id = accountIdOf(userInfo)
         /\ op \in {"removeAccount", "setDefaultAccount"} => userInfo = CHOOSE u \in UserInfos : TRUE
         /\ inFlight' = [inFlight EXCEPT ![c] =
                IF op = "reAuthenticateAccount" /\ findIndex(localStorage.accounts, id) = 0
                THEN [op |-> "addAccount", id |-> accountIdOf(userInfo),
                      userInfo |-> userInfo, token |-> clock + 1,
                      read |-> EmptyStorage, phase |-> "begun"]
                ELSE [op |-> op, id |-> id, userInfo |-> userInfo, token |-> clock + 1,
                      read |-> localStorage, phase |-> "read"]]
    /\ clock' = clock + 1
    /\ UNCHANGED << localStorage, lastWrite >>
    /\ interleavedFrame

\* addAccount called by reAuthenticateAccount: getStoredAccounts is served
MutationReadAgain(c) ==
    /\ inFlight[c].phase = "begun"
    /\ inFlight' = [inFlight EXCEPT ![c].read = localStorage, ![c].phase = "read"]
    /\ UNCHANGED << localStorage, clock, lastWrite >>
    /\ interleavedFrame

\* LocalStorage.setItem of the call is served
MutationWrite(c) ==
    /\ inFlight[c].phase = "read"
    /\ localStorage' = [localStorage EXCEPT
            !.accounts = written(inFlight[c]).accounts,
            !.defaultAccountId = written(inFlight[c]).defaultAccountId]
    /\ inFlight' = [inFlight EXCEPT ![c].phase = "written"]
    /\ lastWrite' = inFlight[c]
    /\ UNCHANGED clock
    /\ interleavedFrame

InterleavedNext ==
    \E c \in Callers :
        \/ MutationRead(c)
        \/ MutationReadAgain(c)
        \/ MutationWrite(c)

SpecInterleaved == Init /\ [][InterleavedNext]_vars

\* --------------------------------------- google-drive.ts: buildFolderPath
\* for (let i = 0; i < 10 && ...)
maxHops == 10

RootLabel == "My Drive"

\* an id that listFolders did not return
Unlisted == Id(0)

\* the listed folders 1..n, each the parent of the one before it, and what the
\* last one names as its parent: the root, nothing, a folder that is not
\* listed, or one of the chain (n itself: its own parent); folder k is named
\* by its number
ChainMap(n, top) ==
    [id \in {Id(k) : k \in 1..n} |->
        [name |-> ToString(id[2]), parent |-> IF id[2] < n THEN Id(id[2] + 1) ELSE top]]

FolderMaps ==
    {ChainMap(n, top) : n \in 1..MaxChain, top \in {Root, Undefined, Unlisted}} \cup
    UNION {{ChainMap(n, Id(k)) : k \in 1..n} : n \in 1..MaxChain}

\* a faulty variant of endedAtRoot: any chain counts as ended at the root
endedAtRootAlways(currentId) == TRUE

\* currentId === "root" after the loop
endedAtRoot(currentId) == currentId = Root

\* the loop of buildFolderPath from its i-th round on: where it stops, and
\* the names unshifted so far
RECURSIVE walkParents(_, _, _, _)
walkParents(i, currentId, pathParts, fm) ==
    IF i < maxHops /\ currentId # Undefined /\ currentId # Root
    THEN IF ~MapHas(fm, currentId)
         THEN [currentId |-> currentId, pathParts |-> pathParts]
         ELSE walkParents(i + 1, fm[currentId].parent,
                          << fm[currentId].name >> \o pathParts, fm)
    ELSE [currentId |-> currentId, pathParts |-> pathParts]

\* buildFolderPath: the parts that join(" > ") puts together (<<>>: "")
buildFolderPath(id, fm) ==
    IF ~MapHas(fm, id) THEN <<>>
    ELSE LET walked == walkParents(0, fm[id].parent, <<>>, fm)
         IN  IF walked.pathParts = <<>> /\ fm[id].parent = Root
             THEN << RootLabel >>
             ELSE IF walked.pathParts # <<>> /\ endedAtRoot(walked.currentId)
             THEN << RootLabel >> \o walked.pathParts
             ELSE walked.pathParts

\* loadFolders has put the listed folders into folderMap
PathInit ==
    /\ UploadInit
    /\ StorageInit
    /\ tokenSets = [p \in Providers |-> NoTokenSet]
    /\ issued = 0
    /\ tokenCall = NoCall
    /\ folderMap \in FolderMaps
    /\ pathCall = NoPathCall

\* one call of buildFolderPath
BuildFolderPath ==
    /\ \E id \in DOMAIN folderMap \cup {Unlisted} :
         pathCall' = [folderId |-> id, path |-> buildFolderPath(id, folderMap)]
    /\ UNCHANGED << commandVars, authVars, storageVars, storeVars, pc, buildVars, fi,
                    retryVars, results, outputVars, unitLog, ensureLog, buildLog,
                    batchLog, folderMap, runVars >>

SpecPath == PathInit /\ [][BuildFolderPath]_vars



\* ========================================================== properties
\* the unit the history is about has its outcome in results
UnitDone == unitLog.unit >= 1 /\ Len(results) >= unitLog.unit
DoneUnit == results[unitLog.unit]

\* the upload loop was entered and went through all units
LoopFinished == pc \in {"summary", "done"} /\ fi >= 1

\* the directory paths that are proper prefixes of a relative path
DirPrefixes(rel) == {SubSeq(rel, 1, i) : i \in 1..(Len(rel) - 1)}

\* C1: a unit whose first upload attempt is answered 401 (AuthExpired) gets
\* exactly one attempt and no backoff wait, and fails with AuthExpired.
C1_AuthExpiredNotRetried ==
    (unitLog.responses # <<>> /\ unitLog.responses[1] = 401)
        => /\ Len(unitLog.responses) = 1
           /\ unitLog.delays = <<>>
           /\ pc # "backoff"
           /\ UnitDone => (~DoneUnit.success /\ DoneUnit.error = AUTHENTICATION_EXPIRED)

\* C2: once a unit's outcome is AuthExpired, no upload attempt is made for
\* any later unit of the batch.
C2_AuthExpiredAbortsBatch ==
    \A i \in 1..Len(results) :
        results[i].error = AUTHENTICATION_EXPIRED
            => ~(unitLog.unit > i /\ unitLog.responses # <<>>)

\* C3: when the upload loop is over there are exactly N outcomes, the failed
\* ones are exactly the units whose retries were exhausted, the others
\* succeeded, and every unit had an upload attempt whatever failed before it.
C3_OutcomePerUnit ==
    LoopFinished
        => /\ Len(results) = Len(files)
           /\ {i \in 1..Len(results) : ~results[i].success} = batchLog.exhausted
           /\ CountWhere(results, FALSE) = Cardinality(batchLog.exhausted)
           /\ CountWhere(results, TRUE) = Len(files) - Cardinality(batchLog.exhausted)
           /\ batchLog.attempted = 1..Len(files)
           /\ \A i \in 1..Len(results) : results[i].localPath = files[i].path

\* C3 witness: of three units the first failed after its retries, and the
\* two after it were uploaded.
C3_Witness ==
    /\ LoopFinished
    /\ Len(files) = 3
    /\ batchLog.exhausted = {1}
    /\ results[2].success /\ results[3].success

\* C4: a unit gets at most maxRetries = 3 upload attempts, and when all three
\* fail its outcome is a failure with the message of the third attempt's error.
C4_LastErrorRecorded ==
    /\ Len(unitLog.responses) <= 3
    /\ (UnitDone /\ Len(unitLog.responses) = 3 /\ unitLog.responses[3] # 200)
           => /\ ~DoneUnit.success
              /\ DoneUnit.error = (IF unitLog.responses[3] = 401
                                   THEN "AUTHENTICATION_EXPIRED"
                                   ELSE IF unitLog.responses[3] = 404
                                   THEN "Failed to upload file: 404"
                                   ELSE "Failed to upload file: 500")

\* C4 witness: three failed attempts with different errors, the third one's
\* recorded.
C4_Witness ==
    /\ UnitDone
    /\ unitLog.responses = <<500, 401, 404>>
    /\ DoneUnit.error = "Failed to upload file: 404"

\* C5: the n-th wait of a unit lasts 2^(n-1) time units and every further
\* attempt follows a wait; a unit answered 500, 500, 200 succeeds after
\* exactly the two waits 1 and 2.
C5_BackoffDoubles ==
    /\ \A n \in 1..Len(unitLog.delays) : unitLog.delays[n] = 2 ^ (n - 1)
    /\ (pc = "upload" /\ unitLog.unit = fi)
           => Len(unitLog.delays) = Len(unitLog.responses)
    /\ UnitDone
           => Len(unitLog.delays) = Len(unitLog.responses) - 1
    /\ (UnitDone /\ unitLog.responses = <<500, 500, 200>>)
           => DoneUnit.success /\ unitLog.delays = <<1, 2>>

\* C5 witness: a unit answered 500, 500, 200 has its outcome.
C5_Witness ==
    /\ UnitDone
    /\ unitLog.responses = <<500, 500, 200>>
    /\ DoneUnit.success

\* C6: a unit whose first upload attempt is answered 404 (a 4xx other than
\* 401) fails after exactly one attempt.
C6_ClientErrorNotRetried ==
    (unitLog.responses # <<>> /\ unitLog.responses[1] = 404)
        => /\ Len(unitLog.responses) = 1
           /\ unitLog.delays = <<>>
           /\ pc # "backoff"
           /\ UnitDone => ~DoneUnit.success

\* C7: once the permission request of a unit is answered, with 200 or with a
\* failure, the unit has succeeded with the uploaded file, no upload attempt
\* followed, and the store got exactly one object for the unit.
C7_PermissionBestEffort ==
    /\ unitLog.copies <= 1
    /\ unitLog.permission # 0
           => /\ UnitDone
              /\ DoneUnit.success
              /\ DoneUnit.file.id # Undefined
              /\ \E f \in remoteFiles : f.id = DoneUnit.file.id
              /\ Last(unitLog.responses) = 200
              /\ unitLog.copies = 1

\* C7 witness: the permission request failed after a retried upload.
C7_Witness ==
    /\ unitLog.permission = 403
    /\ Len(unitLog.responses) = 2
    /\ UnitDone
    /\ DoneUnit.success

\* C8: after a 401 in the hierarchy build (search or creation) the
\* invocation is over with AuthExpired as its failure: the 401 is the last
\* folder call, and no upload was attempted.
C8_BuildAuthExpiredAborts ==
    Contains(buildLog, 401)
        => /\ pc = "done"
           /\ Last(buildLog) = 401
           /\ \A i \in 1..(Len(buildLog) - 1) : buildLog[i] # 401
           /\ results = <<>>
           /\ unitLog = NoLog
           /\ batchLog.attempted = {}
           /\ remoteFiles = {}
           /\ toast.style = "failure"
           /\ toast.message = AUTHENTICATION_EXPIRED

\* C8 witness: the search of the second folder path was answered 401.
C8_Witness ==
    /\ buildLog = <<200, 401>>
    /\ bi = 2
    /\ pc = "done"

\* C9: ensureFolder is idempotent: the store never holds two folders of one
\* name under one parent, and two calls for the same (name, parent) return
\* the same id.
C9_EnsureFolderIdempotent ==
    /\ \A f, g \in remoteFolders :
           (f.name = g.name /\ f.parent = g.parent) => f.id = g.id
    /\ \A a, b \in ensureLog :
           (a[1] = b[1] /\ a[2] = b[2]) => a[3] = b[3]

\* C10: a unit with a relative path is uploaded only when the folder index
\* has an entry for every directory path that is a proper prefix of it.
C10_IndexCoversPrefixes ==
    (unitLog.unit >= 1 /\ unitLog.responses # <<>>)
        => \A d \in DirPrefixes(files[unitLog.unit].relativePath) :
               MapHas(folderIdMap, d)

\* C11: the build loop takes the folder paths in ascending depth; whenever
\* ensureFolder is called for a path of more than one segment, the index
\* already holds its parent path and the parent passed is that id, so every
\* indexed folder of more than one segment lies in the store under the
\* folder indexed for its parent path
C11_ParentsFirst ==
    /\ \A i, j \in 1..Len(sortedFolders) :
          i < j => Len(sortedFolders[i]) <= Len(sortedFolders[j])
    /\ (pc \in {"search", "create"} /\ Len(folderPath) > 1) =>
          /\ MapHas(folderIdMap, Front(folderPath))
          /\ buildParentId = folderIdMap[Front(folderPath)]
    /\ \A k \in DOMAIN folderIdMap :
          Len(k) > 1 =>
            /\ MapHas(folderIdMap, Front(k))
            /\ \E f \in remoteFolders :
                  /\ f.id = folderIdMap[k]
                  /\ f.name = Last(k)
                  /\ f.parent = folderIdMap[Front(k)]

\* photos/sub was ensured under the folder indexed for photos
C11_Witness ==
    /\ MapHas(folderIdMap, <<"photos", "sub">>)
    /\ MapHas(folderIdMap, <<"photos">>)
    /\ folderId = FolderF.id

\* the parent the index and the destination give for a unit
C12_ExpectedParent(f) ==
    IF Len(f.relativePath) > 1 /\ MapHas(folderIdMap, Front(f.relativePath))
    THEN folderIdMap[Front(f.relativePath)]
    ELSE folderId

\* C12: every uploaded unit lies in the store under the id the index holds
\* for the directory part of its relative path when the index holds one, and
\* under the destination folder (My Drive when the destination is root)
\* otherwise.
C12_UploadParent ==
    \A i \in 1..Len(results) :
        results[i].success =>
            \E r \in remoteFiles :
                /\ r.id = results[i].file.id
                /\ r.name = files[i].name
                /\ r.parent = C12_ExpectedParent(files[i])

\* doc.pdf, photos/x.jpg and photos/sub/y.png were uploaded to F: doc.pdf
\* lies in F, x.jpg in the folder indexed for photos, y.png in the folder
\* indexed for photos/sub
C12_Witness ==
    /\ LoopFinished
    /\ folderId = FolderF.id
    /\ selection = <<DocPdf, Photos>>
    /\ \A i \in 1..3 : results[i].success
    /\ MapHas(folderIdMap, <<"photos">>) /\ MapHas(folderIdMap, <<"photos", "sub">>)
    /\ \E r \in remoteFiles : r.name = "doc.pdf" /\ r.parent = FolderF.id
    /\ \E r \in remoteFiles : r.name = "x.jpg" /\ r.parent = folderIdMap[<<"photos">>]
    /\ \E r \in remoteFiles :
          r.name = "y.png" /\ r.parent = folderIdMap[<<"photos", "sub">>]

\* the selection the command read holds plain files only
FilesOnly ==
    /\ selection # <<>>
    /\ \A i \in 1..Len(selection) : ~isDirectory(selection[i])

\* C13: when the selection holds plain files only, no unit has a relative
\* path, ensureFolder is never called and no folder is created, and every
\* uploaded file lies directly under the destination.
C13_FilesOnlyNoStructure ==
    FilesOnly =>
        /\ Len(files) = Len(selection)
        /\ \A i \in 1..Len(files) : files[i].relativePath = <<>>
        /\ pc \notin {"search", "create"}
        /\ buildLog = <<>> /\ ensureLog = {}
        /\ \A f \in remoteFolders : f.id \in {Id(1), Id(2), Id(3)}
        /\ \A r \in remoteFiles : r.parent = folderId

\* two plain files were selected and both were uploaded to F, while the
\* selection read again at upload time held a directory
C13_Witness ==
    /\ FilesOnly
    /\ Len(selection) = 2
    /\ LoopFinished
    /\ hasFolders
    /\ folderId = FolderF.id
    /\ Cardinality(remoteFiles) = 2

\* ------------------------------------------------ the disk, for the flattener
\* d is p or an ancestor of p
Under(d, p) == Len(d) <= Len(p) /\ SubSeq(p, 1, Len(d)) = d

\* the selected directories, and the selected paths that are not directories
SelectedDirs == {selection[i] : i \in {n \in 1..Len(selection) : isDirectory(selection[n])}}
SelectedPlain == {selection[i] : i \in {n \in 1..Len(selection) : ~isDirectory(selection[n])}}

\* the regular files of the disk
DiskFiles ==
    UNION { {dir \o <<readdirSync(dir)[n].name>> :
                n \in {x \in 1..Len(readdirSync(dir)) : readdirSync(dir)[x].kind = "file"}} :
            dir \in Directories }

\* the regular files below directory d that a walk from d can reach: no
\* segment after d begins with a dot, and no directory from d on is unreadable
Discoverable(d) ==
    {p \in DiskFiles :
        /\ Under(d, p)
        /\ \A n \in (Len(d) + 1)..Len(p) : p[n] \notin DotNames
        /\ \A n \in Len(d)..(Len(p) - 1) : SubSeq(p, 1, n) \notin Unreadable}

\* the local paths of the units
UnitPaths == {files[i].path : i \in 1..Len(files)}

\* C14: a unit that has a relative path has the one that leads from the
\* parent of a selected directory to the file: it begins with the selected
\* directory's name, goes on through directory names and ends with the file
\* name.  The folder paths extractFolderStructure derives from the units are
\* exactly the directories, from a selected directory downwards and taken
\* relative to its parent, that have an emitted file somewhere below them.
C14_RoundTrip ==
    /\ \A i \in 1..Len(files) :
          LET rel == files[i].relativePath IN
          rel # <<>> =>
            \E d \in SelectedDirs :
              /\ Front(d) \o rel = files[i].path
              /\ rel[1] = basename(d)
              /\ Last(rel) = files[i].name
              /\ \A n \in 1..(Len(rel) - 1) : Front(d) \o SubSeq(rel, 1, n) \in Directories
    /\ {sortedFolders[i] : i \in 1..Len(sortedFolders)} =
          {SubSeq(pair[2], Len(pair[1]), Len(pair[2])) :
             pair \in {q \in SelectedDirs \X Directories :
                         /\ Under(q[1], q[2])
                         /\ \E i \in 1..Len(files) :
                               /\ files[i].relativePath # <<>>
                               /\ Under(q[2], files[i].path)
                               /\ Under(q[1], files[i].path)
                               /\ Front(q[1]) \o files[i].relativePath = files[i].path}}
    /\ \A i, j \in 1..Len(sortedFolders) : i # j => sortedFolders[i] # sortedFolders[j]

\* photos was selected: the units are photos/x.jpg and photos/sub/y.png, the
\* derived folders photos and photos/sub
C14_Witness ==
    /\ selection = <<Photos>>
    /\ \E i \in 1..Len(files) : files[i].relativePath = <<"photos", "sub", "y.png">>
    /\ Contains(sortedFolders, <<"photos">>)
    /\ Contains(sortedFolders, <<"photos", "sub">>)

\* no selected path lies in a selected directory
NonNested ==
    \A i, j \in 1..Len(selection) :
        (i # j /\ isDirectory(selection[i])) => ~Under(selection[i], selection[j])

\* C15 as stated: whatever the selection, no local file is in two units and
\* every unit is a regular file.
C15_OneUnitPerFile ==
    /\ \A i, j \in 1..Len(files) : i # j => files[i].path # files[j].path
    /\ \A i \in 1..Len(files) : ~files[i].isDirectory

\* C15 amended: whatever the selection, the units are the selected plain
\* files and the regular files a walk of a selected directory reaches, none
\* is a directory and every one is marked is-directory false; when no
\* selected path lies in a selected directory, no local file is in two units.
C15_OneUnitPerDiscovery ==
    /\ UnitPaths = SelectedPlain \cup UNION {Discoverable(d) : d \in SelectedDirs}
    /\ \A i \in 1..Len(files) : ~files[i].isDirectory /\ files[i].path \notin Directories
    /\ NonNested => \A i, j \in 1..Len(files) : i # j => files[i].path # files[j].path

\* doc.pdf and photos were selected: one unit for each of three files
C15_Witness ==
    /\ selection = <<DocPdf, Photos>>
    /\ NonNested
    /\ Len(files) = Cardinality(UnitPaths)
    /\ Len(files) >= 3

\* C16: below a walked directory no unit has a segment that begins with a
\* dot, neither its file name nor a directory on the way; no unit lies in an
\* unreadable directory, and every other regular file a walk of a selected
\* directory reaches, the ones listed after the unreadable directory
\* included, has its unit.
C16_HiddenAndUnreadableSkipped ==
    /\ \A i \in 1..Len(files) :
          LET rel == files[i].relativePath IN
          \A n \in 2..Len(rel) : rel[n] \notin DotNames
    /\ \A i \in 1..Len(files) : \A d \in Unreadable : ~Under(d, files[i].path)
    /\ \A d \in SelectedDirs : Discoverable(d) \subseteq UnitPaths

\* photos holds .DS_Store, .git/config and the unreadable locked before sub:
\* its walk gives x.jpg and sub's y.png and nothing else of level one
C16_Witness ==
    /\ selection = <<Photos>>
    /\ \E i \in 1..Len(files) : files[i].path = XJpg
    /\ \E i \in 1..Len(files) : files[i].path = PhotosSub \o <<"y.png">>
    /\ \A i \in 1..Len(files) : Under(PhotosSub, files[i].path) \/ files[i].path = XJpg

\* the command was opened on an empty selection, or on one that flattens to
\* no unit
NothingToUpload ==
    /\ uiState # "closed"
    /\ selection = <<>> \/ getAllFiles(selection) = <<>>

\* C17: a command opened on an empty selection or on a selection without
\* units is in a state of its own, not in the error state failures use, and
\* has started neither authentication nor an upload.
C17_NothingToUploadIsNotAnError ==
    NothingToUpload =>
        /\ ~errorView
        /\ account = "none"
        /\ pc = "idle"

\* ------------------------------------------------ getValidAccessToken calls
\* a call has been made
Called == tokenCall.providerId # ""

\* the call returned a token (it did not throw)
Returned == Called /\ tokenCall.thrown = ""

\* the token set the call found had an access token and a refresh token and
\* was expired, and the refresh failed
RefreshFailed ==
    /\ Called
    /\ tokenCall.before.accessToken # 0
    /\ tokenCall.before.refreshToken # 0
    /\ tokenCall.before.expired
    /\ tokenCall.response.kind \in {"notOk", "rejected"}

\* C18: when an expired token set with a refresh token cannot be refreshed,
\* the call fails, and it fails with AUTHENTICATION_EXPIRED exactly when the
\* token endpoint answered invalid_grant or invalid_token.
C18_AuthExpiredIffCredentialInvalid ==
    RefreshFailed =>
        /\ tokenCall.thrown # ""
        /\ tokenCall.thrown = AUTHENTICATION_EXPIRED
              <=> tokenCall.response.error \in {"invalid_grant", "invalid_token"}

\* C19: a call that returns a token returns one that is not expired: the
\* stored access token only when the token set it found was not expired,
\* or else a token the endpoint has just issued.
C19_NeverReturnsExpired ==
    Returned =>
        /\ tokenCall.returned # 0
        /\ \/ tokenCall.returned = tokenCall.before.accessToken /\ ~tokenCall.before.expired
           \/ tokenCall.returned # tokenCall.before.accessToken /\ tokenCall.fetches = 1

\* C20: a call that finds an access token that is not expired returns that
\* token, makes no request to the token endpoint and leaves the stored token
\* set as it found it.
C20_CachedTokenReturnedDirectly ==
    (Called /\ tokenCall.before.accessToken # 0 /\ ~tokenCall.before.expired) =>
        /\ tokenCall.thrown = ""
        /\ tokenCall.returned = tokenCall.before.accessToken
        /\ tokenCall.fetches = 0
        /\ tokenCall.after = tokenCall.before

\* the call found an unexpired token set that has a refresh token, after an
\* earlier refresh had replaced the first one
C20_Witness ==
    /\ Called
    /\ tokenCall.before.accessToken > 1
    /\ tokenCall.before.refreshToken # 0
    /\ ~tokenCall.before.expired
    /\ tokenCall.returned = tokenCall.before.accessToken

\* the call found an expired token set with a refresh token, and the token
\* endpoint answered the refresh request with a token response
RefreshSucceeded ==
    /\ Called
    /\ tokenCall.before.accessToken # 0
    /\ tokenCall.before.refreshToken # 0
    /\ tokenCall.before.expired
    /\ tokenCall.response.kind = "ok"

\* C21: after a successful refresh of an expired token set the call returns
\* the access token the endpoint has just issued, not the one it found, and
\* that token is in the token set stored for the account's provider id,
\* which is not expired and has a refresh token; the token sets of the other
\* provider ids are as they were.
C21_RefreshedTokenPersistedAndReturned ==
    RefreshSucceeded =>
        /\ tokenCall.thrown = ""
        /\ tokenCall.fetches = 1
        /\ tokenCall.returned > tokenCall.before.accessToken
        /\ tokenCall.returned = tokenCall.after.accessToken
        /\ tokenCall.after # tokenCall.before
        /\ ~tokenCall.after.expired
        /\ tokenCall.after.refreshToken # 0
        /\ tokenCall.othersKept

\* the refresh response brought no refresh token, and the other provider id
\* holds a token set of its own
C21_Witness ==
    /\ RefreshSucceeded
    /\ ~tokenCall.response.refresh_token
    /\ tokenCall.returned = 2
    /\ tokenSets[tokenCall.providerId].accessToken = 2
    /\ \E other \in Providers \ {tokenCall.providerId} : tokenSets[other].accessToken = 1

\* C22: a call that finds no token set for the account's provider id throws
\* AUTHENTICATION_EXPIRED, makes no request to the token endpoint and stores
\* nothing.
C22_NoTokensAuthExpired ==
    (Called /\ tokenCall.before = NoTokenSet) =>
        /\ tokenCall.thrown = AUTHENTICATION_EXPIRED
        /\ tokenCall.returned = 0
        /\ tokenCall.fetches = 0
        /\ tokenCall.after = NoTokenSet

\* the provider id asked for holds nothing while the other one holds an
\* expired token set that could be refreshed
C22_Witness ==
    /\ Called
    /\ tokenCall.before = NoTokenSet
    /\ tokenCall.thrown = AUTHENTICATION_EXPIRED
    /\ \E other \in Providers \ {tokenCall.providerId} :
          tokenSets[other].refreshToken # 0 /\ tokenSets[other].expired

\* the last call on the stored accounts was op, made on an id that was stored
StoredCall(op) ==
    /\ storageCall.op = op
    /\ findIndex(storageCall.before.accounts, storageCall.id) > 0

\* the provider ids and the access tokens of the stored accounts
ProviderIdsOf(stored) == {stored.accounts[i].providerId : i \in 1..Len(stored.accounts)}
AccessTokensOf(stored) == {stored.accounts[i].accessToken : i \in 1..Len(stored.accounts)}

\* C23: re-authenticating a stored account keeps its id and its position,
\* gives it a newly generated provider id and the new access token, and leaves
\* the number of accounts, every other account and the default as they were
C23_ReAuthenticateInPlace ==
    StoredCall("reAuthenticateAccount") =>
        LET before == storageCall.before
            accountIndex == findIndex(before.accounts, storageCall.id)
        IN  /\ Len(localStorage.accounts) = Len(before.accounts)
            /\ localStorage.accounts[accountIndex].id = storageCall.id
            /\ localStorage.accounts[accountIndex].providerId \notin ProviderIdsOf(before)
            /\ localStorage.accounts[accountIndex].accessToken \notin AccessTokensOf(before)
            /\ localStorage.accounts[accountIndex].accessToken = clock
            /\ \A j \in 1..Len(before.accounts) :
                   j # accountIndex => localStorage.accounts[j] = before.accounts[j]
            /\ localStorage.defaultAccountId = before.defaultAccountId
            /\ localStorage.defaultFolder = before.defaultFolder

C23_Witness ==
    /\ StoredCall("reAuthenticateAccount")
    /\ Len(storageCall.before.accounts) = 2
    /\ findIndex(storageCall.before.accounts, storageCall.id) = 2
    /\ storageCall.before.defaultAccountId # NoId
    /\ localStorage.accounts[2].email # storageCall.before.accounts[2].email

\* C24: removing the default account makes the first remaining account, in
\* storage order, the default, or leaves no default when none remains;
\* removing another account leaves the default as it was
C24_RemoveDefaultPromotesFirst ==
    StoredCall("removeAccount") =>
        LET before == storageCall.before
        IN  /\ findIndex(localStorage.accounts, storageCall.id) = 0
            /\ Len(localStorage.accounts) = Len(before.accounts) - 1
            /\ IF getDefaultAccount(before).id = storageCall.id
               THEN /\ getDefaultAccount(localStorage) =
                          (IF localStorage.accounts = <<>> THEN NoAccount
                           ELSE localStorage.accounts[1])
                    /\ localStorage.accounts = <<>> => localStorage.defaultAccountId = NoId
               ELSE /\ getDefaultAccount(localStorage) = getDefaultAccount(before)
                    /\ localStorage.defaultAccountId = before.defaultAccountId

C24_Witness ==
    /\ StoredCall("removeAccount")
    /\ Len(storageCall.before.accounts) = 3
    /\ storageCall.before.defaultAccountId = storageCall.id
    /\ findIndex(storageCall.before.accounts, storageCall.id) = 1
    /\ localStorage.defaultAccountId = storageCall.before.accounts[2].id

\* C25: no two stored accounts share an id (sub, or email without one): adding
\* an account whose id is stored replaces the stored record in place; so at
\* most one stored account is the default
C25_AccountIdsUnique ==
    /\ \A i, j \in 1..Len(localStorage.accounts) :
           localStorage.accounts[i].id = localStorage.accounts[j].id => i = j
    /\ StoredCall("addAccount") =>
           /\ Len(localStorage.accounts) = Len(storageCall.before.accounts)
           /\ findIndex(localStorage.accounts, storageCall.id) =
                  findIndex(storageCall.before.accounts, storageCall.id)
           /\ localStorage.accounts[findIndex(localStorage.accounts, storageCall.id)].accessToken
                  = clock
    /\ Cardinality({i \in 1..Len(localStorage.accounts) :
                       localStorage.accounts[i].id = localStorage.defaultAccountId}) <= 1

C25_Witness ==
    /\ StoredCall("addAccount")
    /\ Len(localStorage.accounts) = 2
    /\ findIndex(localStorage.accounts, storageCall.id) = 1
    /\ localStorage.defaultAccountId = storageCall.id
    /\ localStorage.accounts[1].accessToken > storageCall.before.accounts[1].accessToken

\* C26: getDefaultFolder(accountId) gives the stored folder only when the
\* folder was stored for that account id and nothing when it was stored for
\* another; setting a default folder for an account overwrites the one stored
\* preference
C26_DefaultFolderPerAccount ==
    /\ storageCall.op = "getDefaultFolder" =>
           storageCall.result =
               (IF localStorage.defaultFolder.accountId = storageCall.id
                THEN localStorage.defaultFolder ELSE NoFolder)
    /\ storageCall.op = "setDefaultFolder" =>
           /\ localStorage.defaultFolder.accountId = storageCall.id
           /\ \A accountId \in AccountIds \ {storageCall.id} :
                  getDefaultFolder(localStorage, accountId) = NoFolder
           /\ getDefaultFolder(localStorage, storageCall.id) = localStorage.defaultFolder

C26_Witness ==
    /\ storageCall.op = "getDefaultFolder"
    /\ localStorage.defaultFolder # NoFolder
    /\ localStorage.defaultFolder.accountId # storageCall.id
    /\ findIndex(localStorage.accounts, storageCall.id) > 0
    /\ storageCall.result = NoFolder

\* ------------------------------------------------------ the copied link
\* the upload loop has run and the summary has been given
Summarized == pc = "done" /\ results # <<>>

\* the summary is the one Clipboard.copy leaves when it throws
CopyThrew == toast.style = "success" /\ toast.message = "Uploaded to folder"

FolderLink(dest) == [kind |-> "folder", id |-> dest]
FileLink(f) == [kind |-> "file", id |-> f.id]

\* the batch of more than one unit under a real destination folder ended
\* with every unit uploaded: the folder's link is copied
C27_FolderLinkWhenNoneFailed ==
    (/\ Summarized
     /\ Len(results) > 1
     /\ folderId # Root
     /\ CountWhere(results, FALSE) = 0
     /\ ~CopyThrew)
        => clipboard = FolderLink(folderId)

\* C27: after a batch of more than one unit under a real destination folder,
\* the copied link is the folder's link and no file's, also when some of the
\* units failed and some succeeded
C27_FolderLinkForBatch ==
    (/\ Summarized
     /\ Len(results) > 1
     /\ folderId # Root
     /\ CountWhere(results, TRUE) > 0
     /\ ~CopyThrew)
        => clipboard = FolderLink(folderId)

\* the batch was one unit, uploaded, and Drive gave it a link
SingleLinkedFile ==
    /\ Len(results) = 1
    /\ results[1].success
    /\ results[1].file.webViewLink

\* C28: after a batch of exactly one unit that succeeded with a share link the
\* copied link is that file's link, whatever the destination; after a batch to
\* My Drive that is not a single linked file no link is copied
C28_SingleFileLinkElseNone ==
    Summarized =>
        /\ (SingleLinkedFile /\ ~CopyThrew) => clipboard = FileLink(results[1].file)
        /\ (folderId = Root /\ ~SingleLinkedFile) => clipboard = NoLink

C28_Witness ==
    /\ Summarized
    /\ SingleLinkedFile
    /\ folderId # Root
    /\ clipboard = FileLink(results[1].file)
    /\ toast.message = "Link copied to clipboard"

\* ------------------------------------------------- the order of the calls
\* handleUpload is in the hierarchy build, or in the upload loop
InBuild == pc \in {"search", "create"}
InUploadLoop == pc \in {"upload", "backoff", "public"}

\* C29: one handleUpload is strictly sequential: while a folder call is made
\* no upload has been attempted; once an upload has been attempted every
\* ensureFolder call of the batch has returned; and a unit is attempted only
\* when every unit before it has its final outcome
C29_StrictlySequential ==
    /\ InBuild =>
           /\ batchLog.attempted = {}
           /\ results = <<>>
           /\ unitLog = NoLog
           /\ remoteFiles = {}
    /\ (batchLog.attempted # {} \/ InUploadLoop) =>
           /\ ~InBuild
           /\ \A i \in 1..Len(sortedFolders) : MapHas(folderIdMap, sortedFolders[i])
           /\ sortedFolders # <<>> => bi = Len(sortedFolders)
    /\ InUploadLoop =>
           /\ Len(results) = fi - 1
           /\ batchLog.attempted \subseteq 1..fi
           /\ unitLog.unit \in {0, fi - 1, fi}
    /\ \A u \in batchLog.attempted : Len(results) >= u - 1

C29_Witness ==
    /\ pc = "upload"
    /\ fi = 2
    /\ Len(sortedFolders) = 2
    /\ unitLog.unit = 1
    /\ Len(unitLog.responses) = 3
    /\ Len(unitLog.delays) = 2
    /\ Len(results) = 1

\* ---------------------------------------------------------- termination
\* handleUpload is running
Running == pc \notin {"idle", "done"}

\* the steps the unit at fi can still take: an attempt is followed by the
\* permission request or by a delay
UnitSteps ==
    IF pc = "upload" THEN 2 * (maxRetries - attempt)
    ELSE IF pc = "backoff" THEN 2 * (maxRetries - attempt) - 1
    ELSE 1

\* the steps the upload loop can still take, the summary included
LoopSteps(unitsLeft) == 2 * maxRetries * unitsLeft + 1

\* the steps the invocation can still take
StepsLeft ==
    IF pc = "done" THEN 0
    ELSE IF pc = "summary" THEN 1
    ELSE IF InUploadLoop THEN UnitSteps + LoopSteps(Len(files) - fi)
    ELSE IF pc = "search" THEN 2 * (Len(sortedFolders) - bi) + 2 + LoopSteps(Len(files))
    ELSE IF pc = "create" THEN 2 * (Len(sortedFolders) - bi) + 1 + LoopSteps(Len(files))
    ELSE 0

\* C30: a running handleUpload always has a next step, every step brings it
\* nearer to its end (the summary or the abort), and no unit is attempted more
\* than 3 times
C30_BatchTerminates ==
    [][Running =>
          /\ ENABLED Next
          /\ StepsLeft' < StepsLeft
          /\ StepsLeft' >= 0
          /\ attempt < maxRetries
          /\ Len(unitLog'.responses) <= maxRetries
          /\ pc' = "done" => (toast'.style # "animated")]_vars

C30_Witness ==
    /\ pc = "done"
    /\ Len(results) = 3
    /\ batchLog.exhausted # {}
    /\ Len(sortedFolders) = 2

\* ------------------------------------------------- interleaved mutations
\* the stored accounts object: the part of LocalStorage the mutations write
AccountsObject(stored) ==
    [accounts |-> stored.accounts, defaultAccountId |-> stored.defaultAccountId]

\* the mutation of the call applied to the accounts object the call read
MutationOfRead(call) ==
    CASE call.op = "addAccount" ->
             addAccount(call.read, call.token, call.token, call.userInfo)
      [] call.op = "removeAccount" -> removeAccount(call.read, call.id)
      [] call.op = "setDefaultAccount" -> setDefaultAccount(call.read, call.id)
      [] call.op = "reAuthenticateAccount" ->
             reAuthenticateAccount(call.read, [NoAccount EXCEPT !.id = call.id],
                                   call.token, call.token, call.userInfo)

\* C31: the mutations of the stored accounts are unsynchronised and the last
\* writer wins: whatever was written between a call's read and its write, the
\* stored accounts object is the last writer's mutation applied to what that
\* call itself had read
C31_LastWriterWins ==
    lastWrite.op # "none" =>
        AccountsObject(localStorage) = AccountsObject(MutationOfRead(lastWrite))

\* two addAccount calls for different accounts both read the empty list and
\* both wrote: only the account of the second writer is stored
C31_Witness ==
    /\ \A c \in Callers : inFlight[c].op = "addAccount" /\ inFlight[c].phase = "written"
    /\ inFlight[1].id # inFlight[2].id
    /\ inFlight[1].read = EmptyStorage /\ inFlight[2].read = EmptyStorage
    /\ lastWrite.id = inFlight[2].id
    /\ Len(localStorage.accounts) = 1
    /\ localStorage.accounts[1].id = inFlight[2].id

\* ------------------------------------------------------ the displayed path
\* what is named as parent after j hops up from the folder id: the parent of
\* the folder itself for j = 0; nothing once the chain has left the listing
RECURSIVE ParentAfter(_, _)
ParentAfter(id, j) ==
    IF j = 0 THEN folderMap[id].parent
    ELSE LET below == ParentAfter(id, j - 1)
         IN  IF MapHas(folderMap, below) THEN folderMap[below].parent ELSE Undefined

\* how many listed ancestors the first maxHops hops meet
AncestorsWalked(id) ==
    Cardinality({j \in 0..(maxHops - 1) : MapHas(folderMap, ParentAfter(id, j))})

\* the chain names the root after at most maxHops listed ancestors
ReachesRoot(id) == \E j \in 0..maxHops : ParentAfter(id, j) = Root

\* C32: buildFolderPath returns for every folder map, cyclic ones included:
\* it takes the names of at most 10 ancestors, nearest last, and puts the root
\* label in front exactly when the chain names the root within those hops (the
\* label alone for a folder directly under the root)
C32_PathBoundedAndLabelled ==
    pathCall.folderId # Undefined =>
        LET id == pathCall.folderId
            path == pathCall.path
        IN  IF ~MapHas(folderMap, id) THEN path = <<>>
            ELSE LET labelled == path # <<>> /\ path[1] = RootLabel
                     names == IF labelled THEN Tail(path) ELSE path
                     k == AncestorsWalked(id)
                 IN  /\ k <= maxHops
                     /\ Len(names) = k
                     /\ \A j \in 0..(k - 1) :
                            names[k - j] = folderMap[ParentAfter(id, j)].name
                     /\ labelled <=> ReachesRoot(id)
                     /\ folderMap[id].parent = Root => path = << RootLabel >>

\* the path of a folder that is its own parent: its name ten times, no label
C32_Witness ==
    /\ folderMap = ChainMap(1, Id(1))
    /\ pathCall.folderId = Id(1)
    /\ pathCall.path = [i \in 1..maxHops |-> "1"]

\* the path of a folder with eleven ancestors below the root: the ten nearest
C32_LongChain ==
    /\ folderMap = ChainMap(12, Root)
    /\ pathCall.folderId = Id(1)
    /\ pathCall.path = [i \in 1..10 |-> ToString(12 - i)]

\* ------------------------------------------------- the batch uploaded twice
\* the second invocation on the units is over; it had the destination of the
\* first
SecondRunOver ==
    /\ run = 2
    /\ pc = "done"
    /\ Len(results) = Len(files)
    /\ \A i \in 1..Len(results) : results[i].success
    /\ folderId = firstRun.folderId

\* the second run creates no folder, and every unit has two remote objects
FoldersOnceFilesTwice ==
    /\ remoteFolders = firstRun.folders
    /\ firstRun.files \subseteq remoteFiles
    /\ Cardinality(firstRun.files) = Len(files)
    /\ Cardinality(remoteFiles) = 2 * Len(files)
    /\ \A i \in 1..Len(files) :
           Cardinality({r \in remoteFiles : r.name = files[i].name}) = 2

\* both invocations found directories in the selection they read again, or
\* both found none
C33_WhenSelectionKept ==
    (SecondRunOver /\ hasFolders = firstRun.hasFolders) => FoldersOnceFilesTwice

\* C33: when the same batch is uploaded twice into the same destination and
\* every remote call succeeds, the second run creates no folder (the folders
\* are those the store held after the first run) and every file has exactly
\* two remote objects
C33_FoldersOnceFilesTwice ==
    SecondRunOver => FoldersOnceFilesTwice

\* ------------------------------------- the search that ensureFolder relies on
\* C34: ensureFolder calls createFolder only after a search that was answered
\* with success and matched no folder; after a search that failed (with a
\* status other than 401) createFolder is not called
C34_CreateOnlyAfterEmptySearch ==
    pc = "create" =>
        /\ Last(buildLog) = 200
        /\ SearchMatches(folderNamePart, buildParentId) = {}

\* ------------------------------------ the selection read again at upload time
\* C35: where a unit is placed depends only on the units flattened when the
\* command started and on the destination: every uploaded unit whose relative
\* path has a directory part lies in a remote folder named like its directory,
\* never directly in the destination, whatever the Finder selection is when
\* handleUpload runs
C35_NestedNeverFlat ==
    \A i \in 1..Len(results) :
        (results[i].success /\ Len(files[i].relativePath) > 1) =>
            \E r \in remoteFiles :
                /\ r.id = results[i].file.id
                /\ r.parent # folderId
                /\ \E f \in remoteFolders :
                       /\ f.id = r.parent
                       /\ f.name = Last(Front(files[i].relativePath))

\* the same, for the runs in which handleUpload found a directory in the
\* selection it read
C35_WhenDirectoryStillSelected ==
    hasFolders => C35_NestedNeverFlat

\* ------------------------------------------------- the stored default account
\* the stored default id is absent or the id of a stored account
DefaultIdStored ==
    \/ localStorage.defaultAccountId = NoId
    \/ findIndex(localStorage.accounts, localStorage.defaultAccountId) > 0

\* the last call was setDefaultAccount with an id that was not stored
DefaultSetToUnstoredId ==
    /\ storageCall.op = "setDefaultAccount"
    /\ findIndex(storageCall.before.accounts, storageCall.id) = 0

\* every call other than setDefaultAccount of an id that is not stored keeps
\* the default id absent or stored
C36_KeptByOtherCalls ==
    [][(DefaultIdStored /\ ~DefaultSetToUnstoredId') => DefaultIdStored']_vars

\* C36: after any sequence of addAccount, removeAccount, setDefaultAccount and
\* reAuthenticateAccount the stored default id is absent or the id of a stored
\* account, and getDefaultAccount returns an account whenever one is stored
C36_DefaultIdAbsentOrStored ==
    /\ DefaultIdStored
    /\ localStorage.accounts # <<>> => getDefaultAccount(localStorage) # NoAccount

\* ------------------------------------------- the refresh token after a refresh
\* the last call, of getValidAccessToken or of authorize, asked the token
\* endpoint for a refresh and was answered with a token response
RefreshAnswered == Called /\ tokenCall.response.kind = "ok"

\* C37: a successful refresh never loses the refresh token: the token set
\* stored after it has one, the one the request was made with when the
\* response brought none and the one of the response otherwise
C37_RefreshKeepsRefreshToken ==
    RefreshAnswered =>
        /\ tokenCall.thrown = ""
        /\ tokenCall.before.refreshToken # 0
        /\ tokenCall.after.refreshToken # 0
        /\ tokenSets[tokenCall.providerId].refreshToken = tokenCall.after.refreshToken
        /\ IF tokenCall.response.refresh_token
           THEN tokenCall.after.refreshToken = tokenCall.after.accessToken
           ELSE tokenCall.after.refreshToken = tokenCall.before.refreshToken

\* a token set was refreshed twice: the first response brought the refresh
\* token 2, the second brought none and the stored set still holds 2
C37_Witness ==
    /\ RefreshAnswered
    /\ ~tokenCall.response.refresh_token
    /\ tokenCall.before = [accessToken |-> 2, refreshToken |-> 2, expired |-> TRUE]
    /\ tokenCall.after = [accessToken |-> 3, refreshToken |-> 2, expired |-> FALSE]
    /\ tokenSets[tokenCall.providerId] = tokenCall.after

====
